---------------------------- MODULE Spec2Model ----------------------------
(***************************************************************************)
(* A model of monana: the location-history index, the metadata extractor,  *)
(* the rule engine and the pipeline orchestrator.                          *)
(*                                                                         *)
(* The module holds three state machines that share no state:              *)
(*   SpecHistory   LocationHistory::from_json_file and find_closest_points *)
(*   SpecExtract   extract_metadata_with_location_history and the          *)
(*                 prototype extract_metadata of main.rs                   *)
(*   SpecPipeline  the per-file orchestration of rulesets and actions      *)
(* Spec is their disjoint union.                                           *)
(***************************************************************************)
EXTENDS Integers, Sequences, FiniteSets, TLC

VARIABLES
    \* ---- location history (metadata/location_history.rs)
    hpc,        \* "idle" | "start" | "loaded" | "failed"
    takeout,    \* the file handed to from_json_file
    data,       \* LocationHistory.data
    found,      \* the last find_closest_points call: [target, before, after]
    \* ---- metadata extraction (metadata/extractor.rs, main.rs)
    epc,        \* "idle" | "start" | "done" | "failed"
    ppc,        \* the prototype's extraction: "idle" | "start" | "done"
    efile,      \* the file being extracted
    ehist,      \* Option<LocationHistory>
    emax,       \* Option<u64>: location_history_max_hours
    eout,       \* the Result returned, with the locals of the history lookup
    pout,       \* the Result the prototype's extract_metadata returned
    \* ---- pipeline run (pipeline/mod.rs, actions/mod.rs, template/mod.rs)
    opc,        \* "idle" | "run" | "done"
    ppl,        \* the loaded Pipeline
    dry_run,    \* the dry-run flag
    inputs,     \* the input files, in discovery order
    queue,      \* the input files not yet taken
    cur,        \* the file being processed, NoFile between files
    stack,      \* the process_recursive calls pending for it, innermost first
    world,      \* the filesystem and the commands run
    olog,       \* the log sink
    summary,    \* files processed and files errored
    \* ---- template expansion (template/mod.rs)
    tpc,        \* "idle" | "start" | "expanded" | "again"
    tparts,     \* the template, as its parts
    tctx,       \* the context
    tout,       \* the Result of apply_template
    tagain,     \* the Result of apply_template on that result
    \* ---- rule evaluation (pipeline/mod.rs)
    rpc,        \* "idle" | "start" | "done"
    rrule,      \* the rule
    rctx,       \* the context
    rcond,      \* the Result of evaluate_condition
    rout,       \* the Result of process_rule
    \* ---- the date of a file name (metadata/extractor.rs)
    dpc,        \* "idle" | "start" | "dated" | "done"
    dinput,     \* the path, and the date written in it where it holds one
    ddate,      \* the date picked from the name
    dinstant,   \* the Option returned by extract_date_from_filename
    \* ---- the action executor (actions/mod.rs)
    apc,        \* "idle" | "start" | "done"
    acall,      \* the action, source, destination, world and refusal
    aout,       \* the result of execute and the world after it
    \* ---- the command-line entry point (main.rs)
    mpc,        \* "idle" | "start" | "loop" | "exited"
    margs,      \* the path given: whether it exists, its kind, what a walk yields
    mfiles,     \* the files collected
    mlog,       \* the files the loop has handled, in order
    mcount,     \* the counters of the summary
    mexit,      \* the exit code, once exited
    \* ---- deserialization of the pipeline (pipeline/mod.rs)
    cpc,        \* "idle" | "start" | "done" | "classified"
    cdoc,       \* the configuration document
    cout        \* the Result of deserializing it

hvars == <<hpc, takeout, data, found>>
evars == <<epc, ppc, efile, ehist, emax, eout, pout>>
pvars == <<opc, ppl, dry_run, inputs, queue, cur, stack, world, olog, summary>>
tvars == <<tpc, tparts, tctx, tout, tagain>>
rvars == <<rpc, rrule, rctx, rcond, rout>>
dvars == <<dpc, dinput, ddate, dinstant>>
avars == <<apc, acall, aout>>
mvars == <<mpc, margs, mfiles, mlog, mcount, mexit>>
cvars == <<cpc, cdoc, cout>>
vars == <<hvars, evars, pvars, tvars, rvars, dvars, avars, mvars, cvars>>

(***************************************************************************)
(* Option and Result values.                                               *)
(***************************************************************************)
None == [some |-> FALSE]
Some(v) == [some |-> TRUE, val |-> v]
Ok(v) == [ok |-> TRUE, val |-> v]
Err(e) == [ok |-> FALSE, err |-> e]

Range(s) == {s[i] : i \in 1..Len(s)}
SeqsUpTo(S, n) == UNION {[1..k -> S] : k \in 0..n}

(***************************************************************************)
(* Text.  A Rust String is the sequence of its characters, so that scanning,*)
(* splitting and formatting are computed and not assumed.                  *)
(***************************************************************************)
Digits == <<"0", "1", "2", "3", "4", "5", "6", "7", "8", "9">>
DigitVal(c) == CHOOSE d \in 0..9 : Digits[d + 1] = c
IsDigit(c) == \E d \in 0..9 : Digits[d + 1] = c

EmptyStr == <<>>
S_unknown == <<"u", "n", "k", "n", "o", "w", "n">>
S_Unknown == <<"U", "n", "k", "n", "o", "w", "n">>
S_00 == <<"0", "0">>
S_image == <<"i", "m", "a", "g", "e">>
S_video == <<"v", "i", "d", "e", "o">>
S_gps_present == <<"g", "p", "s", "_", "p", "r", "e", "s", "e", "n", "t">>

\* format!("{:02}") and format!("{:04}") of a number that fits.
Digit(n) == Digits[(n % 10) + 1]
Pad2(n) == <<Digit(n \div 10), Digit(n)>>
Pad4(n) == <<Digit(n \div 1000), Digit(n \div 100), Digit(n \div 10), Digit(n)>>

(***************************************************************************)
(* Time.  An instant (DateTime<Utc>) is its number of milliseconds since   *)
(* 1970-01-01T00:00:00Z; the model explores instants of January 1970.      *)
(***************************************************************************)
MsPerSecond == 1000
MsPerMinute == 60 * 1000
MsPerHour == 60 * 60 * 1000
MsPerDay == 24 * 60 * 60 * 1000

IsLeap(y) == ((y % 4) = 0 /\ (y % 100) # 0) \/ (y % 400) = 0
DaysInMonth(y, m) ==
    IF m = 2 THEN (IF IsLeap(y) THEN 29 ELSE 28)
    ELSE IF m \in {4, 6, 9, 11} THEN 30 ELSE 31

\* Days since 1970-01-01 of a civil date, and back (proleptic Gregorian).
days_from_civil(y0, m, d) ==
    LET y == IF m <= 2 THEN y0 - 1 ELSE y0
        era == y \div 400
        yoe == y - era * 400
        mp == IF m > 2 THEN m - 3 ELSE m + 9
        doy == (153 * mp + 2) \div 5 + d - 1
        doe == yoe * 365 + yoe \div 4 - yoe \div 100 + doy
    IN  era * 146097 + doe - 719468

civil_from_days(z0) ==
    LET z == z0 + 719468
        era == z \div 146097
        doe == z - era * 146097
        yoe == (doe - doe \div 1460 + doe \div 36524 - doe \div 146096) \div 365
        doy == doe - (365 * yoe + yoe \div 4 - yoe \div 100)
        mp == (5 * doy + 2) \div 153
        d == doy - (153 * mp + 2) \div 5 + 1
        m == IF mp < 10 THEN mp + 3 ELSE mp - 9
        y == yoe + era * 400 + (IF m <= 2 THEN 1 ELSE 0)
    IN  [year |-> y, month |-> m, day |-> d]

MonthNames ==
    << <<"J","a","n","u","a","r","y">>, <<"F","e","b","r","u","a","r","y">>,
       <<"M","a","r","c","h">>, <<"A","p","r","i","l">>, <<"M","a","y">>,
       <<"J","u","n","e">>, <<"J","u","l","y">>, <<"A","u","g","u","s","t">>,
       <<"S","e","p","t","e","m","b","e","r">>, <<"O","c","t","o","b","e","r">>,
       <<"N","o","v","e","m","b","e","r">>, <<"D","e","c","e","m","b","e","r">> >>

\* Indexed by days-since-epoch mod 7: 1970-01-01 was a Thursday.
WeekdayNames ==
    << <<"T","h","u","r","s","d","a","y">>, <<"F","r","i","d","a","y">>,
       <<"S","a","t","u","r","d","a","y">>, <<"S","u","n","d","a","y">>,
       <<"M","o","n","d","a","y">>, <<"T","u","e","s","d","a","y">>,
       <<"W","e","d","n","e","s","d","a","y">> >>

\* NaiveDate::from_ymd_opt(y, m, d).and_hms_opt(h, mi, s) as an instant.
ValidDate(y, m, d) == m \in 1..12 /\ d >= 1 /\ d <= DaysInMonth(y, m)
ValidTime(h, mi, s) == h \in 0..23 /\ mi \in 0..59 /\ s \in 0..59
InstantOf(y, m, d, h, mi, s) ==
    days_from_civil(y, m, d) * MsPerDay + h * MsPerHour + mi * MsPerMinute + s * MsPerSecond

(***************************************************************************)
(* Paths (camino::Utf8Path) as character sequences.                        *)
(***************************************************************************)
\* The greatest index of character c in s, 0 if there is none.
LastIndexOf(s, c) ==
    LET I == {i \in 1..Len(s) : s[i] = c}
    IN  IF I = {} THEN 0 ELSE CHOOSE i \in I : \A j \in I : j <= i

IndexOf(s, c) ==
    LET I == {i \in 1..Len(s) : s[i] = c}
    IN  IF I = {} THEN 0 ELSE CHOOSE i \in I : \A j \in I : i <= j

StartsWith(s, p) == Len(s) >= Len(p) /\ SubSeq(s, 1, Len(p)) = p
EndsWith(s, p) == Len(s) >= Len(p) /\ SubSeq(s, Len(s) - Len(p) + 1, Len(s)) = p

\* Utf8Path::file_name, parent, file_stem and extension of a non-empty path
\* that does not end in a separator.
file_name(path) ==
    LET k == LastIndexOf(path, "/")
    IN  IF path = <<>> THEN None ELSE Some(SubSeq(path, k + 1, Len(path)))

\* s without the separators it ends in.
RECURSIVE StripTrailingSeps(_)
StripTrailingSeps(s) ==
    IF s # <<>> /\ s[Len(s)] = "/" THEN StripTrailingSeps(SubSeq(s, 1, Len(s) - 1)) ELSE s

parent(path) ==
    LET k == LastIndexOf(path, "/")
    IN  IF path = <<>> THEN None
        ELSE IF k = 0 THEN Some(EmptyStr)
        ELSE IF StripTrailingSeps(SubSeq(path, 1, k - 1)) = <<>> THEN Some(<<"/">>)
        ELSE Some(StripTrailingSeps(SubSeq(path, 1, k - 1)))

file_stem(path) ==
    LET f == file_name(path)
        k == IF f.some THEN LastIndexOf(f.val, ".") ELSE 0
    IN  IF ~f.some THEN None
        ELSE IF k <= 1 THEN f
        ELSE Some(SubSeq(f.val, 1, k - 1))

extension(path) ==
    LET f == file_name(path)
        k == IF f.some THEN LastIndexOf(f.val, ".") ELSE 0
    IN  IF ~f.some \/ k <= 1 THEN None
        ELSE Some(SubSeq(f.val, k + 1, Len(f.val)))

UnwrapOr(o, d) == IF o.some THEN o.val ELSE d

(***************************************************************************)
(* Parsing of date-time text (chrono).                                     *)
(***************************************************************************)
AllDigits(s) == \A i \in 1..Len(s) : IsDigit(s[i])
RECURSIVE NumOf(_, _)
NumOf(s, acc) == IF s = <<>> THEN acc ELSE NumOf(Tail(s), acc * 10 + DigitVal(Head(s)))

\* "YYYY-MM-DDTHH:MM:SS": NaiveDateTime::parse_from_str(s, "%Y-%m-%dT%H:%M:%S").
ParseNaive(s) ==
    IF /\ Len(s) = 19
       /\ s[5] = "-" /\ s[8] = "-" /\ s[11] = "T" /\ s[14] = ":" /\ s[17] = ":"
       /\ AllDigits(SubSeq(s, 1, 4)) /\ AllDigits(SubSeq(s, 6, 7))
       /\ AllDigits(SubSeq(s, 9, 10)) /\ AllDigits(SubSeq(s, 12, 13))
       /\ AllDigits(SubSeq(s, 15, 16)) /\ AllDigits(SubSeq(s, 18, 19))
    THEN LET y == NumOf(SubSeq(s, 1, 4), 0)
             m == NumOf(SubSeq(s, 6, 7), 0)
             d == NumOf(SubSeq(s, 9, 10), 0)
             h == NumOf(SubSeq(s, 12, 13), 0)
             mi == NumOf(SubSeq(s, 15, 16), 0)
             sec == NumOf(SubSeq(s, 18, 19), 0)
         IN  IF ValidDate(y, m, d) /\ ValidTime(h, mi, sec)
             THEN Ok(InstantOf(y, m, d, h, mi, sec))
             ELSE Err("out of range")
    ELSE Err("invalid")

\* The UTC offset that ends an RFC 3339 text, in milliseconds: "Z" or +HH:MM
\* or -HH:MM.
ParseOffset(s) ==
    IF s = <<"Z">> THEN Ok(0)
    ELSE IF /\ Len(s) = 6 /\ s[1] \in {"+", "-"} /\ s[4] = ":"
            /\ AllDigits(SubSeq(s, 2, 3)) /\ AllDigits(SubSeq(s, 5, 6))
            /\ NumOf(SubSeq(s, 2, 3), 0) <= 23 /\ NumOf(SubSeq(s, 5, 6), 0) <= 59
    THEN LET ms == NumOf(SubSeq(s, 2, 3), 0) * MsPerHour + NumOf(SubSeq(s, 5, 6), 0) * MsPerMinute
         IN  Ok(IF s[1] = "-" THEN -ms ELSE ms)
    ELSE Err("invalid")

\* DateTime::parse_from_rfc3339(s).with_timezone(&Utc)
parse_from_rfc3339(s) ==
    IF Len(s) < 20 THEN Err("invalid")
    ELSE LET local == ParseNaive(SubSeq(s, 1, 19))
             off == ParseOffset(SubSeq(s, 20, Len(s)))
         IN  IF local.ok /\ off.ok THEN Ok(local.val - off.val) ELSE Err("invalid")

\* str::replace(from, to) for single characters.
ReplaceChar(s, from, to) == [i \in 1..Len(s) |-> IF s[i] = from THEN to ELSE s[i]]

\* extractor.rs parse_exif_datetime: "YYYY:MM:DD HH:MM:SS"; the colons of the
\* date part only become dashes.
parse_exif_datetime(datetime_str) ==
    LET k == IndexOf(datetime_str, " ")
    IN  IF k = 0 THEN Err("Invalid datetime format")
        ELSE LET date_part == ReplaceChar(SubSeq(datetime_str, 1, k - 1), ":", "-")
                 time_part == SubSeq(datetime_str, k + 1, Len(datetime_str))
             IN  parse_from_rfc3339(date_part \o <<"T">> \o time_part \o <<"Z">>)

\* main.rs parse_exif_datetime: every colon of the text becomes a dash before
\* the text is split.
proto_parse_exif_datetime(datetime_str) ==
    LET normalized == ReplaceChar(datetime_str, ":", "-")
        k == IndexOf(normalized, " ")
    IN  IF k = 0 THEN Err("Invalid datetime format")
        ELSE parse_from_rfc3339(SubSeq(normalized, 1, k - 1) \o <<"T">>
                                \o SubSeq(normalized, k + 1, Len(normalized)) \o <<"Z">>)

(***************************************************************************)
(* MediaContext (metadata/context.rs as used by extractor.rs)              *)
(***************************************************************************)
DefaultTime ==
    [yyyy |-> EmptyStr, mm |-> EmptyStr, dd |-> EmptyStr, hh |-> EmptyStr,
     min |-> EmptyStr, ss |-> EmptyStr, month_name |-> EmptyStr,
     weekday |-> EmptyStr, timestamp |-> None]

\* lat and lon are held in units of 1e-7 degree.
DefaultSpace ==
    [country |-> EmptyStr, country_code |-> EmptyStr, state |-> EmptyStr,
     city |-> EmptyStr, district |-> EmptyStr, road |-> EmptyStr,
     lat |-> 0, lon |-> 0, altitude |-> None]

DefaultSource ==
    [path |-> EmptyStr, name |-> EmptyStr, extension |-> EmptyStr,
     original |-> EmptyStr, size |-> 0]

\* meta: HashMap<String, Dynamic> as the set of its entries, keys unique.
EmptyMeta == {}
MetaHas(meta, k) == \E e \in meta : e.k = k
MetaInsert(meta, k, v) == {e \in meta : e.k # k} \cup {[k |-> k, v |-> v]}
DynInt(n) == [t |-> "int", n |-> n, s |-> EmptyStr]
DynStr(s) == [t |-> "str", n |-> 0, s |-> s]

\* special: the block resolve_variable reads md5, md5_short and count from.
DefaultSpecial == [md5 |-> EmptyStr, md5_short |-> EmptyStr, count |-> 0]

DefaultContext ==
    [time |-> DefaultTime, space |-> DefaultSpace, source |-> DefaultSource,
     type |-> EmptyStr, meta |-> EmptyMeta, special |-> DefaultSpecial]

\* create_time_context(dt)
create_time_context(dt) ==
    LET days == dt \div MsPerDay
        rest == dt % MsPerDay
        c == civil_from_days(days)
    IN  [yyyy |-> Pad4(c.year), mm |-> Pad2(c.month), dd |-> Pad2(c.day),
         hh |-> Pad2(rest \div MsPerHour),
         min |-> Pad2((rest % MsPerHour) \div MsPerMinute),
         ss |-> Pad2((rest % MsPerMinute) \div MsPerSecond),
         month_name |-> MonthNames[c.month],
         weekday |-> WeekdayNames[(days % 7) + 1],
         timestamp |-> Some(dt)]

(***************************************************************************)
(* Reverse geocoder (metadata/location.rs).  The city database is a        *)
(* collaborator: two records, the nearest of which is returned.            *)
(***************************************************************************)
E7 == 10000000
Abs(x) == IF x < 0 THEN -x ELSE x

GeoRecords ==
    << [lat |-> 5 * E7, lon |-> -2 * E7, name |-> <<"T", "a", "k", "o", "r", "a", "d", "i">>, cc |-> <<"G", "H">>,
        admin1 |-> <<"W", "e", "s", "t", "e", "r", "n">>],
       [lat |-> 40 * E7, lon |-> -80 * E7, name |-> <<"P", "i", "t", "t", "s", "b", "u", "r", "g", "h">>, cc |-> <<"U", "S">>,
        admin1 |-> <<"P", "e", "n", "n", "s", "y", "l", "v", "a", "n", "i", "a">>] >>

GeoDist(r, lat, lon) == Abs(r.lat - lat) + Abs(r.lon - lon)

GeocoderSearch(lat, lon) ==
    IF GeoDist(GeoRecords[1], lat, lon) <= GeoDist(GeoRecords[2], lat, lon)
    THEN GeoRecords[1] ELSE GeoRecords[2]

\* location.rs reverse_geocode: always Ok.
reverse_geocode(latitude, longitude) ==
    LET rec == GeocoderSearch(latitude, longitude)
    IN  Ok([DefaultSpace EXCEPT !.city = rec.name, !.country = rec.cc,
                                !.country_code = rec.cc, !.state = rec.admin1,
                                !.lat = latitude, !.lon = longitude])

(***************************************************************************)
(* Location history                                                        *)
(***************************************************************************)
\* Bounds of the takeout documents explored.
MaxLocs == 2
MaxActs == 1

\* str::parse::<u64> of a string given as its characters: digits only, at
\* least one of them.
RECURSIVE ParseDigits(_, _)
ParseDigits(s, acc) ==
    IF s = <<>> THEN acc
    ELSE ParseDigits(Tail(s), acc * 10 + DigitVal(Head(s)))

parse_str_to_u64(s) ==
    IF s # <<>> /\ \A i \in 1..Len(s) : IsDigit(s[i])
    THEN Ok(ParseDigits(s, 0))
    ELSE Err("invalid digit")

\* The timestampMs strings of the documents explored: three numeric ones and
\* one that is not a number.
TsStrings == {<<"1", "0">>, <<"2", "0">>, <<"3", "0">>, <<"1", "x">>}

\* A "locations" entry.  Its coordinates identify the entry: the i-th entry
\* of a document has latitudeE7 = i and longitudeE7 = -i.
TakeoutLocation(i, ts, acts) ==
    [timestamp_ms |-> ts, latitude_e7 |-> i, longitude_e7 |-> -i, activity |-> acts]

\* The choices a document of n locations is built from.
TakeoutChoices(n) ==
    [1..n -> [ts : TsStrings, acts : SeqsUpTo(TsStrings, MaxActs)]]

TakeoutDoc(n, f) == [k \in 1..n |-> TakeoutLocation(k, f[k].ts, f[k].acts)]

LocationPoint(ts, lat, lon) ==
    [timestamp_ms |-> ts, latitude_e7 |-> lat, longitude_e7 |-> lon]

\* serde: every timestampMs of the document goes through parse_str_to_u64; one
\* failure fails the whole deserialization.
TimestampsParse(locs) ==
    \A i \in 1..Len(locs) :
        /\ parse_str_to_u64(locs[i].timestamp_ms).ok
        /\ \A j \in 1..Len(locs[i].activity) : parse_str_to_u64(locs[i].activity[j]).ok

\* A mutant of ActivityPoints: the activities give no points.
ActivityPointsDropped(loc, acts) == <<>>

\* The loop of from_json_file: the location's own point, then one point per
\* activity with the location's coordinates.
RECURSIVE ActivityPoints(_, _)
ActivityPoints(loc, acts) ==
    IF acts = <<>> THEN <<>>
    ELSE <<LocationPoint(parse_str_to_u64(Head(acts)).val, loc.latitude_e7, loc.longitude_e7)>>
         \o ActivityPoints(loc, Tail(acts))

RECURSIVE CollectPoints(_)
CollectPoints(locs) ==
    IF locs = <<>> THEN <<>>
    ELSE LET loc == Head(locs)
         IN  <<LocationPoint(parse_str_to_u64(loc.timestamp_ms).val,
                             loc.latitude_e7, loc.longitude_e7)>>
             \o ActivityPoints(loc, loc.activity)
             \o CollectPoints(Tail(locs))

\* Ord for LocationPoint compares timestamp_ms only.
PointLe(p, q) == p.timestamp_ms <= q.timestamp_ms

\* slice::sort_unstable on a short slice is an insertion sort.
RECURSIVE InsertPoint(_, _)
InsertPoint(sorted, p) ==
    IF sorted = <<>> THEN <<p>>
    ELSE IF PointLe(sorted[Len(sorted)], p) THEN Append(sorted, p)
    ELSE Append(InsertPoint(SubSeq(sorted, 1, Len(sorted) - 1), p), sorted[Len(sorted)])

RECURSIVE InsertionSort(_, _)
InsertionSort(sorted, rest) ==
    IF rest = <<>> THEN sorted
    ELSE InsertionSort(InsertPoint(sorted, Head(rest)), Tail(rest))

NoSort(points) == points

sort_unstable(points) == InsertionSort(<<>>, points)

\* A mutant of from_json_file: an entry whose timestampMs is no number is
\* skipped and the rest is loaded.
FromJsonFileLenient(file) ==
    IF file.kind = "missing" THEN Err("io")
    ELSE IF file.kind = "malformed" THEN Err("json")
    ELSE LET NumericTs(ts) == parse_str_to_u64(ts).ok
             Kept == SelectSeq(file.locations, LAMBDA loc : NumericTs(loc.timestamp_ms))
             Cleaned == [k \in 1..Len(Kept) |->
                            [Kept[k] EXCEPT !.activity = SelectSeq(@, NumericTs)]]
         IN  Ok(sort_unstable(CollectPoints(Cleaned)))

from_json_file(file) ==
    IF file.kind = "missing" THEN Err("io")
    ELSE IF file.kind = "malformed" THEN Err("json")
    ELSE IF ~TimestampsParse(file.locations) THEN Err("json")
    ELSE Ok(sort_unstable(CollectPoints(file.locations)))

\* slice::binary_search_by_key on a sorted slice: Ok(i) for an index whose key
\* is the target (any of them when several are), else Err(insertion point).
binary_search_by_key(d, target) ==
    IF \E i \in 1..Len(d) : d[i].timestamp_ms = target
    THEN {Ok(i) : i \in {j \in 1..Len(d) : d[j].timestamp_ms = target}}
    ELSE {Err(Cardinality({j \in 1..Len(d) : d[j].timestamp_ms < target}) + 1)}

\* Mutants of ClosestFrom: the predecessor read one slot too far, and an exact
\* hit treated as a miss.
ClosestFromShifted(d, r) ==
    IF r.ok THEN [before |-> Some(d[r.val]), after |-> Some(d[r.val])]
    ELSE [before |-> IF r.err <= Len(d) THEN Some(d[r.err]) ELSE None,
          after  |-> IF r.err <= Len(d) THEN Some(d[r.err]) ELSE None]

ClosestFromNoExact(d, r) ==
    LET i == IF r.ok THEN r.val ELSE r.err
    IN  [before |-> IF i > 1 THEN Some(d[i - 1]) ELSE None,
         after  |-> IF i <= Len(d) THEN Some(d[i]) ELSE None]

\* find_closest_points after the search returned r.  Indices are 1-based here:
\* the insertion point `index` of the code is r.err - 1.
ClosestFrom(d, r) ==
    IF r.ok THEN [before |-> Some(d[r.val]), after |-> Some(d[r.val])]
    ELSE [before |-> IF r.err > 1 THEN Some(d[r.err - 1]) ELSE None,
          after  |-> IF r.err <= Len(d) THEN Some(d[r.err]) ELSE None]

find_closest_points(d, target) ==
    IF d = <<>> THEN {[before |-> None, after |-> None]}
    ELSE {ClosestFrom(d, r) : r \in binary_search_by_key(d, target)}

(***************************************************************************)
(* Metadata extractor (metadata/extractor.rs)                              *)
(***************************************************************************)
\* A file is what the filesystem, the MIME sniffer, the image decoder and
\* the EXIF parser report about it:
\*   path     the path given on the command line
\*   stat     fs::metadata succeeds
\*   size     its length
\*   mime     "image" | "video" | "other" | "none"
\*   image    image::open: None or Some([w, h])
\*   created  metadata.created(): None or Some(instant)
\*   exif     "unreadable" | "none" | "parse_err" | "reparse_err" | "ok"
\*   gps      parse_gps_info: None or Some(GPSInfo)
\*   tags     the EXIF entries in iteration order

\* extract_source_info(path)
extract_source_info(f) ==
    IF ~f.stat THEN Err("metadata")
    ELSE Ok([path |-> UnwrapOr(parent(f.path), <<".">>),
             name |-> UnwrapOr(file_stem(f.path), S_unknown),
             extension |-> UnwrapOr(extension(f.path), EmptyStr),
             original |-> UnwrapOr(file_name(f.path), S_unknown),
             size |-> f.size])

\* detect_media_type(path)
detect_media_type(f) ==
    IF f.mime = "image" THEN S_image
    ELSE IF f.mime = "video" THEN S_video
    ELSE S_unknown

\* convert_gps_coordinate(coord, negative): degrees, minutes and seconds to
\* decimal degrees (here in units of 1e-7 degree).
convert_gps_coordinate(coord, negative) ==
    LET decimal == coord[1] * E7 + (coord[2] * E7) \div 60 + (coord[3] * E7) \div 3600
    IN  IF negative THEN -decimal ELSE decimal

\* Decimal text of a natural number (format!("{}", n)).
RECURSIVE ToDec(_)
ToDec(n) == IF n < 10 THEN <<Digit(n)>> ELSE Append(ToDec(n \div 10), Digit(n))

T_DateTimeOriginal == <<"D", "a", "t", "e", "T", "i", "m", "e", "O", "r", "i", "g", "i", "n", "a", "l">>
T_CreateDate == <<"C", "r", "e", "a", "t", "e", "D", "a", "t", "e">>
T_GPSInfo == <<"G", "P", "S", "I", "n", "f", "o">>
T_Make == <<"M", "a", "k", "e">>
T_ImageWidth == <<"I", "m", "a", "g", "e", "W", "i", "d", "t", "h">>
T_ImageHeight == <<"I", "m", "a", "g", "e", "H", "e", "i", "g", "h", "t">>
T_ExifImageWidth == <<"E", "x", "i", "f", "I", "m", "a", "g", "e", "W", "i", "d", "t", "h">>
T_ExifImageHeight == <<"E", "x", "i", "f", "I", "m", "a", "g", "e", "H", "e", "i", "g", "h", "t">>

\* An EXIF entry: known/tag (entry.tag(), by its Debug name), code
\* (entry.tag_code()), ok (entry.take_result() is Ok), kind ("str": as_str is
\* Some; "u32": as_u32 is Some; "other"), text (the string, or the Debug text
\* of a value that is no string), num.
Entry(tag, kind, text, num) ==
    [known |-> TRUE, tag |-> tag, code |-> 0, ok |-> TRUE, kind |-> kind,
     text |-> text, num |-> num]

\* The name meta stores the entry under.
TagName(e) == IF e.known THEN e.tag ELSE <<"T", "a", "g", "_">> \o ToDec(e.code)

\* The Dynamic stored for the entry's value.
DynamicOf(e) == IF e.kind = "u32" THEN DynInt(e.num) ELSE DynStr(e.text)

\* The DateTimeOriginal / CreateDate arm of the tag loop: the instant the value
\* parses to, if it does.
EntryInstant(e) ==
    IF e.kind = "str" THEN parse_exif_datetime(e.text)
    ELSE IF StartsWith(e.text, <<"T", "i", "m", "e", "(">>) /\ EndsWith(e.text, <<")">>)
    THEN parse_from_rfc3339(SubSeq(e.text, 6, Len(e.text) - 1))
    ELSE IF StartsWith(e.text, <<"N", "a", "i", "v", "e", "D", "a", "t", "e", "T", "i", "m", "e", "(">>) /\ EndsWith(e.text, <<")">>)
    THEN ParseNaive(SubSeq(e.text, 15, Len(e.text) - 1))
    ELSE Err("not a date")

\* One iteration of the tag loop of extract_exif_metadata.
ApplyEntry(ctx, e) ==
    IF ~e.ok THEN ctx
    ELSE LET c1 == [ctx EXCEPT !.meta = MetaInsert(ctx.meta, TagName(e), DynamicOf(e))]
         IN  IF e.known /\ e.tag \in {T_DateTimeOriginal, T_CreateDate} /\ EntryInstant(e).ok
             THEN [c1 EXCEPT !.time = create_time_context(EntryInstant(e).val)]
             ELSE c1

RECURSIVE ApplyEntries(_, _)
ApplyEntries(ctx, tags) ==
    IF tags = <<>> THEN ctx ELSE ApplyEntries(ApplyEntry(ctx, Head(tags)), Tail(tags))

\* The GPS pass of extract_exif_metadata.
GpsPass(ctx, gps) ==
    IF ~gps.some THEN ctx
    ELSE LET lat == convert_gps_coordinate(gps.val.latitude, gps.val.latitude_ref = "S")
             lon == convert_gps_coordinate(gps.val.longitude, gps.val.longitude_ref = "W")
             alt == Some(gps.val.altitude)
             loc == reverse_geocode(lat, lon)
         IN  IF loc.ok
             THEN [ctx EXCEPT !.space = [loc.val EXCEPT !.lat = lat, !.lon = lon,
                                                        !.altitude = alt]]
             ELSE [ctx EXCEPT !.space.lat = lat, !.space.lon = lon, !.space.altitude = alt]

\* extract_exif_metadata(path)
extract_exif_metadata(f) ==
    IF f.exif = "unreadable" THEN Err("media source")
    ELSE IF f.exif = "none" THEN Err("No EXIF data found")
    ELSE IF f.exif = "parse_err" THEN Err("parse")
    ELSE LET c1 == GpsPass(DefaultContext, f.gps)
         IN  IF f.exif = "reparse_err" THEN Err("parse")
             ELSE Ok(ApplyEntries(c1, f.tags))

\* str::split(&['-', ' ', '.'][..]): the pieces between separators, empty
\* pieces included.
RECURSIVE SplitOn(_, _, _)
SplitOn(s, seps, piece) ==
    IF s = <<>> THEN <<piece>>
    ELSE IF Head(s) \in seps THEN <<piece>> \o SplitOn(Tail(s), seps, <<>>)
    ELSE SplitOn(Tail(s), seps, Append(piece, Head(s)))

\* str::parse::<u32> and str::parse::<i32>: an optional sign, then digits.
\* Texts of more than nine digits are reported as overflowing.
ParseU32(s) ==
    LET body == IF s # <<>> /\ Head(s) = "+" THEN Tail(s) ELSE s
    IN  IF body # <<>> /\ Len(body) <= 9 /\ AllDigits(body) THEN Ok(NumOf(body, 0))
        ELSE Err("invalid")

ParseI32(s) ==
    LET neg == s # <<>> /\ Head(s) = "-"
        body == IF s # <<>> /\ Head(s) \in {"+", "-"} THEN Tail(s) ELSE s
    IN  IF body # <<>> /\ Len(body) <= 9 /\ AllDigits(body)
        THEN Ok(IF neg THEN -NumOf(body, 0) ELSE NumOf(body, 0))
        ELSE Err("invalid")

MinYear == 1900
MaxYear == 2100

\* A mutant of AcceptDate: the three ranges alone, the calendar not asked.
AcceptDateRangesOnly(year, month, day) ==
    /\ year >= MinYear /\ year <= MaxYear
    /\ month >= 1 /\ month <= 12
    /\ day >= 1 /\ day <= 31

\* The acceptance test both patterns share: the three ranges, then
\* NaiveDate::from_ymd_opt.
AcceptDate(year, month, day) ==
    /\ year >= MinYear /\ year <= MaxYear
    /\ month >= 1 /\ month <= 12
    /\ day >= 1 /\ day <= 31
    /\ ValidDate(year, month, day)

\* The 8-digit pattern at 1-based position i of the file name.
DigitsWindowDate(name, i) ==
    LET w == SubSeq(name, i, i + 7)
    IN  IF AllDigits(w) /\ AcceptDate(NumOf(SubSeq(w, 1, 4), 0), NumOf(SubSeq(w, 5, 6), 0),
                                       NumOf(SubSeq(w, 7, 8), 0))
        THEN Some([year |-> NumOf(SubSeq(w, 1, 4), 0), month |-> NumOf(SubSeq(w, 5, 6), 0),
                   day |-> NumOf(SubSeq(w, 7, 8), 0)])
        ELSE None

\* The YYYY-MM-DD pattern: only for a name that holds a '-'.
DashedDate(name) ==
    LET parts == SplitOn(name, {"-", " ", "."}, <<>>)
    IN  IF \E i \in 1..Len(name) : name[i] = "-"
        THEN IF /\ Len(parts) >= 3
                /\ ParseI32(parts[1]).ok /\ ParseU32(parts[2]).ok /\ ParseU32(parts[3]).ok
                /\ AcceptDate(ParseI32(parts[1]).val, ParseU32(parts[2]).val,
                              ParseU32(parts[3]).val)
             THEN Some([year |-> ParseI32(parts[1]).val, month |-> ParseU32(parts[2]).val,
                        day |-> ParseU32(parts[3]).val])
             ELSE None
        ELSE None

\* The date extract_date_from_filename picks: the first 8-digit window that
\* is accepted, else the dashed pattern.
FilenameDate(path) ==
    LET fname == file_name(path)
    IN  IF ~fname.some THEN None
        ELSE LET name == fname.val
                 Hits == {i \in 1..(Len(name) - 7) : DigitsWindowDate(name, i).some}
             IN  IF Hits # {}
                 THEN DigitsWindowDate(name, CHOOSE i \in Hits : \A j \in Hits : i <= j)
                 ELSE DashedDate(name)

\* extract_date_from_filename(path): the picked date at 00:00:00 UTC.
extract_date_from_filename(path) ==
    IF FilenameDate(path).some
    THEN Some(InstantOf(FilenameDate(path).val.year, FilenameDate(path).val.month,
                        FilenameDate(path).val.day, 0, 0, 0))
    ELSE None

DefaultMaxHours == 48

\* u64::saturating_sub
SaturatingSub(a, b) == IF a > b THEN a - b ELSE 0

\* Mutants of SelectPoint: a strict threshold, and ties that favour `after`.
SelectPointStrict(before, after, photo_timestamp_ms, max_time_diff_ms) ==
    LET db == IF before.some THEN SaturatingSub(photo_timestamp_ms, before.val.timestamp_ms) ELSE 0
        da == IF after.some THEN SaturatingSub(after.val.timestamp_ms, photo_timestamp_ms) ELSE 0
        okb == before.some /\ db < max_time_diff_ms
        oka == after.some /\ da < max_time_diff_ms
    IN  IF okb /\ oka THEN (IF db <= da THEN before ELSE after)
        ELSE IF okb THEN before
        ELSE IF oka THEN after
        ELSE None

\* The `match (before, after)` of apply_fallbacks: the point selected.
SelectPoint(before, after, photo_timestamp_ms, max_time_diff_ms) ==
    IF before.some /\ after.some
    THEN LET diff_before == SaturatingSub(photo_timestamp_ms, before.val.timestamp_ms)
             diff_after == SaturatingSub(after.val.timestamp_ms, photo_timestamp_ms)
         IN  IF diff_before <= max_time_diff_ms /\ diff_after <= max_time_diff_ms
             THEN (IF diff_before <= diff_after THEN before ELSE after)
             ELSE IF diff_before <= max_time_diff_ms THEN before
             ELSE IF diff_after <= max_time_diff_ms THEN after
             ELSE None
    ELSE IF before.some
    THEN (IF SaturatingSub(photo_timestamp_ms, before.val.timestamp_ms) <= max_time_diff_ms
          THEN before ELSE None)
    ELSE IF after.some
    THEN (IF SaturatingSub(after.val.timestamp_ms, photo_timestamp_ms) <= max_time_diff_ms
          THEN after ELSE None)
    ELSE None

\* max_hours.unwrap_or(48) * 60 * 60 * 1000
MaxTimeDiffMs(max_hours) == UnwrapOr(max_hours, DefaultMaxHours) * 60 * 60 * 1000

\* The dimension fallback of apply_fallbacks (image::open).
DimensionFallback(ctx, f) ==
    LET has_width == MetaHas(ctx.meta, T_ImageWidth) \/ MetaHas(ctx.meta, T_ExifImageWidth)
        has_height == MetaHas(ctx.meta, T_ImageHeight) \/ MetaHas(ctx.meta, T_ExifImageHeight)
        m1 == IF ~has_width THEN MetaInsert(ctx.meta, T_ImageWidth, DynInt(f.image.val.w))
              ELSE ctx.meta
        m2 == IF ~has_height THEN MetaInsert(m1, T_ImageHeight, DynInt(f.image.val.h))
              ELSE m1
    IN  IF (~has_width \/ ~has_height) /\ f.image.some THEN [ctx EXCEPT !.meta = m2] ELSE ctx

\* A mutant of FilenameFallback: the date of the file name is taken whether
\* or not a timestamp is set.
FilenameFallbackOverriding(ctx, f) ==
    IF ctx.type = S_video /\ extract_date_from_filename(f.path).some
    THEN [ctx EXCEPT !.time = create_time_context(extract_date_from_filename(f.path).val)]
    ELSE ctx

\* The file-name date fallback, for videos without a timestamp.
FilenameFallback(ctx, f) ==
    IF ~ctx.time.timestamp.some /\ ctx.type = S_video /\ extract_date_from_filename(f.path).some
    THEN [ctx EXCEPT !.time = create_time_context(extract_date_from_filename(f.path).val)]
    ELSE ctx

\* The filesystem creation time fallback.
CreatedFallback(ctx, f) ==
    IF ~ctx.time.timestamp.some /\ f.stat /\ f.created.some
    THEN [ctx EXCEPT !.time = create_time_context(f.created.val)]
    ELSE ctx

NoLookup == [consulted |-> FALSE, target |-> 0, before |-> None, after |-> None,
             max_time_diff_ms |-> 0, selected |-> None]

\* A selected history point applied to the context.
ApplyPoint(ctx, point) ==
    LET lat == point.latitude_e7
        lon == point.longitude_e7
        loc == reverse_geocode(lat, lon)
    IN  IF loc.ok THEN [ctx EXCEPT !.space = [loc.val EXCEPT !.lat = lat, !.lon = lon]]
        ELSE [ctx EXCEPT !.space.lat = lat, !.space.lon = lon]

\* Mutant of HistoryFallback: the history is consulted whatever the
\* coordinates are.
HistoryFallbackAlways(ctx, location_history, max_hours) ==
    IF location_history.some /\ ctx.time.timestamp.some
    THEN LET t == ctx.time.timestamp.val
             mx == MaxTimeDiffMs(max_hours)
         IN  {[ctx |-> IF SelectPoint(r.before, r.after, t, mx).some
                       THEN ApplyPoint(ctx, SelectPoint(r.before, r.after, t, mx).val)
                       ELSE ctx,
               lookup |-> [consulted |-> TRUE, target |-> t, before |-> r.before,
                           after |-> r.after, max_time_diff_ms |-> mx,
                           selected |-> SelectPoint(r.before, r.after, t, mx)]]
              : r \in find_closest_points(location_history.val, t)}
    ELSE {[ctx |-> ctx, lookup |-> NoLookup]}

\* The location-history fallback of apply_fallbacks: the contexts it can
\* leave, each with the values of its locals.
HistoryFallback(ctx, location_history, max_hours) ==
    IF ctx.space.lat = 0 /\ ctx.space.lon = 0
       /\ location_history.some /\ ctx.time.timestamp.some
    THEN LET photo_timestamp_ms == ctx.time.timestamp.val
             max_time_diff_ms == MaxTimeDiffMs(max_hours)
         IN  {[ctx |-> IF SelectPoint(r.before, r.after, photo_timestamp_ms,
                                      max_time_diff_ms).some
                       THEN ApplyPoint(ctx, SelectPoint(r.before, r.after,
                                            photo_timestamp_ms, max_time_diff_ms).val)
                       ELSE ctx,
               lookup |-> [consulted |-> TRUE, target |-> photo_timestamp_ms,
                           before |-> r.before, after |-> r.after,
                           max_time_diff_ms |-> max_time_diff_ms,
                           selected |-> SelectPoint(r.before, r.after, photo_timestamp_ms,
                                                    max_time_diff_ms)]]
              : r \in find_closest_points(location_history.val, photo_timestamp_ms)}
    ELSE {[ctx |-> ctx, lookup |-> NoLookup]}

\* apply_fallbacks(context, path, location_history, max_hours)
apply_fallbacks(ctx, f, location_history, max_hours) ==
    HistoryFallback(CreatedFallback(FilenameFallback(DimensionFallback(ctx, f), f), f),
                    location_history, max_hours)

\* Mutants of apply_defaults: one that defaults the city alone, one that
\* defaults the place of a context at the origin.
ApplyDefaultsCityOnly(ctx) ==
    LET c1 == IF ctx.time.yyyy = EmptyStr
              THEN [ctx EXCEPT !.time.yyyy = S_unknown, !.time.mm = S_00, !.time.dd = S_00,
                               !.time.month_name = S_Unknown, !.time.weekday = S_Unknown]
              ELSE ctx
    IN  IF c1.space.city = EmptyStr THEN [c1 EXCEPT !.space.city = S_unknown] ELSE c1

\* apply_defaults(context)
apply_defaults(ctx) ==
    LET c1 == IF ctx.time.yyyy = EmptyStr
              THEN [ctx EXCEPT !.time.yyyy = S_unknown, !.time.mm = S_00, !.time.dd = S_00,
                               !.time.month_name = S_Unknown, !.time.weekday = S_Unknown]
              ELSE ctx
    IN  IF c1.space.city = EmptyStr
        THEN [c1 EXCEPT !.space.city = S_unknown, !.space.country = S_unknown]
        ELSE c1

\* A mutant of extract_metadata_with_location_history: a failure of the EXIF
\* extraction is passed on to the caller.
ExtractPassingExifError(f, location_history, max_hours) ==
    IF ~extract_source_info(f).ok THEN {[res |-> Err("metadata"), lookup |-> NoLookup]}
    ELSE LET c0 == [DefaultContext EXCEPT !.source = extract_source_info(f).val,
                                          !.type = detect_media_type(f)]
             ex == extract_exif_metadata(f)
             c1 == [c0 EXCEPT !.time = ex.val.time, !.space = ex.val.space,
                              !.meta = ex.val.meta]
         IN  IF ~ex.ok THEN {[res |-> Err(ex.err), lookup |-> NoLookup]}
             ELSE {[res |-> Ok(apply_defaults(fb.ctx)), lookup |-> fb.lookup]
                   : fb \in apply_fallbacks(c1, f, location_history, max_hours)}

\* extract_metadata_with_location_history(path, location_history, max_hours):
\* the results it can return, each with the locals of the history lookup.
extract_metadata_with_location_history(f, location_history, max_hours) ==
    IF ~extract_source_info(f).ok THEN {[res |-> Err("metadata"), lookup |-> NoLookup]}
    ELSE LET c0 == [DefaultContext EXCEPT !.source = extract_source_info(f).val,
                                          !.type = detect_media_type(f)]
             ex == extract_exif_metadata(f)
             c1 == IF ex.ok THEN [c0 EXCEPT !.time = ex.val.time, !.space = ex.val.space,
                                            !.meta = ex.val.meta]
                   ELSE c0
         IN  {[res |-> Ok(apply_defaults(fb.ctx)), lookup |-> fb.lookup]
              : fb \in apply_fallbacks(c1, f, location_history, max_hours)}

(***************************************************************************)
(* The prototype's extraction (main.rs)                                    *)
(***************************************************************************)
ProtoDefaultContext ==
    [time_yyyy |-> EmptyStr, time_mm |-> EmptyStr, time_dd |-> EmptyStr,
     time_month_name |-> EmptyStr, space_country |-> EmptyStr, space_city |-> EmptyStr,
     space_lat |-> 0, space_lon |-> 0, source_name |-> EmptyStr,
     source_extension |-> EmptyStr, source_original |-> EmptyStr,
     media_type |-> EmptyStr, media_width |-> 0, media_height |-> 0]

\* The four time strings the prototype sets from an instant.
ProtoSetTime(ctx, dt) ==
    LET t == create_time_context(dt)
    IN  [ctx EXCEPT !.time_yyyy = t.yyyy, !.time_mm = t.mm, !.time_dd = t.dd,
                    !.time_month_name = t.month_name]

\* main.rs reverse_geocode: (city, country), always Ok.
proto_reverse_geocode(latitude, longitude) ==
    LET rec == GeocoderSearch(latitude, longitude)
    IN  Ok([city |-> rec.name, country |-> rec.cc])

\* fallback_metadata_extraction(context, path)
fallback_metadata_extraction(ctx, f) ==
    LET c1 == IF f.image.some
              THEN [ctx EXCEPT !.media_width = f.image.val.w, !.media_height = f.image.val.h]
              ELSE ctx
    IN  IF f.stat /\ f.created.some THEN ProtoSetTime(c1, f.created.val) ELSE c1

\* The prototype's GPS step, when parse_gps_info gives coordinates.
ProtoGpsPass(ctx, gps) ==
    LET lat == convert_gps_coordinate(gps.latitude, gps.latitude_ref = "S")
        lon == convert_gps_coordinate(gps.longitude, gps.longitude_ref = "W")
        loc == proto_reverse_geocode(lat, lon)
        c1 == [ctx EXCEPT !.space_lat = lat, !.space_lon = lon]
    IN  IF loc.ok THEN [c1 EXCEPT !.space_city = loc.val.city, !.space_country = loc.val.country]
        ELSE [c1 EXCEPT !.space_city = S_unknown, !.space_country = S_unknown]

\* The instant a date tag parses to in the prototype, if it does.
ProtoEntryInstant(e) ==
    IF e.kind = "str" THEN proto_parse_exif_datetime(e.text)
    ELSE IF StartsWith(e.text, <<"N", "a", "i", "v", "e", "D", "a", "t", "e", "T", "i", "m", "e", "(">>) /\ EndsWith(e.text, <<")">>)
    THEN ParseNaive(SubSeq(e.text, 15, Len(e.text) - 1))
    ELSE Err("not a date")

\* One iteration of the prototype's tag loop; st is the context with the
\* manually found coordinates (gps_latitude, gps_longitude).
ProtoApplyEntry(st, e) ==
    IF ~e.ok \/ ~e.known THEN st
    ELSE IF e.tag = T_GPSInfo
    THEN [st EXCEPT !.gps_latitude = Some(0), !.gps_longitude = Some(0)]
    ELSE IF e.tag \in {T_DateTimeOriginal, T_CreateDate}
    THEN (IF ProtoEntryInstant(e).ok
          THEN [st EXCEPT !.ctx = ProtoSetTime(st.ctx, ProtoEntryInstant(e).val)]
          ELSE st)
    ELSE IF e.tag \in {T_ImageWidth, T_ExifImageWidth}
    THEN (IF e.kind = "u32" THEN [st EXCEPT !.ctx.media_width = e.num] ELSE st)
    ELSE IF e.tag \in {T_ImageHeight, T_ExifImageHeight}
    THEN (IF e.kind = "u32" THEN [st EXCEPT !.ctx.media_height = e.num] ELSE st)
    ELSE st

RECURSIVE ProtoApplyEntries(_, _)
ProtoApplyEntries(st, tags) ==
    IF tags = <<>> THEN st ELSE ProtoApplyEntries(ProtoApplyEntry(st, Head(tags)), Tail(tags))

\* The step after the tag loop: coordinates found manually.
ProtoManualGps(st, gps_already_processed) ==
    IF ~gps_already_processed /\ st.gps_latitude.some /\ st.gps_longitude.some
    THEN IF st.gps_latitude.val = 0 /\ st.gps_longitude.val = 0
         THEN [st.ctx EXCEPT !.space_city = S_gps_present, !.space_country = S_unknown]
         ELSE ProtoGpsPass(st.ctx, [latitude |-> <<st.gps_latitude.val, 0, 0>>,
                                    latitude_ref |-> "N",
                                    longitude |-> <<st.gps_longitude.val, 0, 0>>,
                                    longitude_ref |-> "E"])
    ELSE st.ctx

\* The defaults at the end of the prototype's extract_metadata.
ProtoDefaults(ctx) ==
    LET c1 == IF ctx.time_yyyy = EmptyStr
              THEN [ctx EXCEPT !.time_yyyy = S_unknown, !.time_mm = S_00, !.time_dd = S_00,
                               !.time_month_name = S_Unknown]
              ELSE ctx
    IN  IF c1.space_city = EmptyStr
        THEN [c1 EXCEPT !.space_city = S_unknown, !.space_country = S_unknown]
        ELSE c1

\* main.rs extract_metadata(path)
extract_metadata(f) ==
    LET c0 == [ProtoDefaultContext EXCEPT
                   !.source_original = UnwrapOr(file_name(f.path), S_unknown),
                   !.source_name = UnwrapOr(file_stem(f.path), S_unknown),
                   !.source_extension = UnwrapOr(extension(f.path), EmptyStr),
                   !.media_type = detect_media_type(f)]
        c1 == IF f.exif \in {"unreadable", "none", "parse_err"}
              THEN fallback_metadata_extraction(c0, f)
              ELSE LET g == IF f.gps.some THEN ProtoGpsPass(c0, f.gps.val) ELSE c0
                       st == ProtoApplyEntries([ctx |-> g, gps_latitude |-> None,
                                                gps_longitude |-> None], f.tags)
                   IN  ProtoManualGps(st, f.gps.some)
    IN  Ok(ProtoDefaults(c1))

(***************************************************************************)
(* Template expander (template/mod.rs)                                     *)
(***************************************************************************)
Letters ==
    {"a", "b", "c", "d", "e", "f", "g", "h", "i", "j", "k", "l", "m", "n", "o", "p", "q",
     "r", "s", "t", "u", "v", "w", "x", "y", "z", "A", "B", "C", "D", "E", "F", "G", "H",
     "I", "J", "K", "L", "M", "N", "O", "P", "Q", "R", "S", "T", "U", "V", "W", "X", "Y",
     "Z", "_"}
IsIdentStart(c) == c \in Letters
IsIdentChar(c) == c \in Letters \/ IsDigit(c)

\* The end of the longest run of identifier characters of s that starts at i.
RECURSIVE IdentEnd(_, _)
IdentEnd(s, i) == IF i + 1 <= Len(s) /\ IsIdentChar(s[i + 1]) THEN IdentEnd(s, i + 1) ELSE i

\* TEMPLATE_VAR anchored after a '{': i is the index of the first character of
\* an identifier; the index of the closing '}' of the match, 0 if there is
\* no match.
RECURSIVE VarClose(_, _)
VarClose(s, i) ==
    IF i > Len(s) \/ ~IsIdentStart(s[i]) THEN 0
    ELSE LET e == IdentEnd(s, i)
         IN  IF e + 1 > Len(s) THEN 0
             ELSE IF s[e + 1] = "}" THEN e + 1
             ELSE IF s[e + 1] = "." THEN VarClose(s, e + 2)
             ELSE 0

\* Decimal text of an integer and of a coordinate held in units of 1e-7
\* degree (f64::to_string).
IntToString(n) == IF n < 0 THEN <<"-">> \o ToDec(-n) ELSE ToDec(n)

RECURSIVE StripTrailingZeros(_)
StripTrailingZeros(s) ==
    IF s # <<>> /\ s[Len(s)] = "0" THEN StripTrailingZeros(SubSeq(s, 1, Len(s) - 1)) ELSE s

Pad7(n) ==
    <<Digit(n \div 1000000), Digit(n \div 100000), Digit(n \div 10000), Digit(n \div 1000),
      Digit(n \div 100), Digit(n \div 10), Digit(n)>>

FloatToString(e7) ==
    LET a == Abs(e7)
        frac == StripTrailingZeros(Pad7(a % E7))
    IN  (IF e7 < 0 THEN <<"-">> ELSE <<>>) \o ToDec(a \div E7)
            \o (IF frac = <<>> THEN <<>> ELSE <<".">> \o frac)

\* dynamic_to_string(value)
dynamic_to_string(value) ==
    IF value.t = "str" THEN value.s
    ELSE IF value.t = "int" THEN IntToString(value.n)
    ELSE IF value.t = "bool" THEN (IF value.n = 1 THEN <<"t", "r", "u", "e">> ELSE <<"f", "a", "l", "s", "e">>)
    ELSE value.s

MetaGet(meta, k) ==
    IF MetaHas(meta, k) THEN Some((CHOOSE e \in meta : e.k = k).v) ELSE None

\* resolve_variable(var_name, context)
resolve_variable(var_name, context) ==
    LET parts == SplitOn(var_name, {"."}, <<>>)
    IN  IF Len(parts) = 2 /\ parts[1] = <<"t", "i", "m", "e">>
        THEN (IF parts[2] = <<"y", "y", "y", "y">> THEN Some(context.time.yyyy)
              ELSE IF parts[2] = <<"m", "m">> THEN Some(context.time.mm)
              ELSE IF parts[2] = <<"d", "d">> THEN Some(context.time.dd)
              ELSE IF parts[2] = <<"h", "h">> THEN Some(context.time.hh)
              ELSE IF parts[2] = <<"m", "i", "n">> THEN Some(context.time.min)
              ELSE IF parts[2] = <<"s", "s">> THEN Some(context.time.ss)
              ELSE IF parts[2] = <<"m", "o", "n", "t", "h", "_", "n", "a", "m", "e">> THEN Some(context.time.month_name)
              ELSE IF parts[2] = <<"w", "e", "e", "k", "d", "a", "y">> THEN Some(context.time.weekday)
              ELSE None)
        ELSE IF Len(parts) = 2 /\ parts[1] = <<"s", "p", "a", "c", "e">>
        THEN (IF parts[2] = <<"c", "o", "u", "n", "t", "r", "y">> THEN Some(context.space.country)
              ELSE IF parts[2] = <<"c", "o", "u", "n", "t", "r", "y", "_", "c", "o", "d", "e">> THEN Some(context.space.country_code)
              ELSE IF parts[2] = <<"s", "t", "a", "t", "e">> THEN Some(context.space.state)
              ELSE IF parts[2] = <<"c", "i", "t", "y">> THEN Some(context.space.city)
              ELSE IF parts[2] = <<"d", "i", "s", "t", "r", "i", "c", "t">> THEN Some(context.space.district)
              ELSE IF parts[2] = <<"r", "o", "a", "d">> THEN Some(context.space.road)
              ELSE IF parts[2] = <<"l", "a", "t">> THEN Some(FloatToString(context.space.lat))
              ELSE IF parts[2] = <<"l", "o", "n">> THEN Some(FloatToString(context.space.lon))
              ELSE None)
        ELSE IF Len(parts) = 2 /\ parts[1] = <<"s", "o", "u", "r", "c", "e">>
        THEN (IF parts[2] = <<"p", "a", "t", "h">> THEN Some(context.source.path)
              ELSE IF parts[2] = <<"n", "a", "m", "e">> THEN Some(context.source.name)
              ELSE IF parts[2] = <<"e", "x", "t", "e", "n", "s", "i", "o", "n">> THEN Some(context.source.extension)
              ELSE IF parts[2] = <<"o", "r", "i", "g", "i", "n", "a", "l">> THEN Some(context.source.original)
              ELSE IF parts[2] = <<"s", "i", "z", "e">> THEN Some(IntToString(context.source.size))
              ELSE None)
        ELSE IF Len(parts) = 2 /\ parts[1] = <<"s", "p", "e", "c", "i", "a", "l">>
        THEN (IF parts[2] = <<"m", "d", "5">> THEN Some(context.special.md5)
              ELSE IF parts[2] = <<"m", "d", "5", "_", "s", "h", "o", "r", "t">> THEN Some(context.special.md5_short)
              ELSE IF parts[2] = <<"c", "o", "u", "n", "t">> THEN Some(IntToString(context.special.count))
              ELSE None)
        ELSE IF Len(parts) = 1 /\ parts[1] = <<"t", "y", "p", "e">> THEN Some(context.type)
        ELSE IF Len(parts) = 2 /\ parts[1] = <<"m", "e", "t", "a">>
        THEN (IF MetaGet(context.meta, parts[2]).some
              THEN Some(dynamic_to_string(MetaGet(context.meta, parts[2]).val))
              ELSE None)
        ELSE None

\* A mutant of Replacement: an unknown reference is replaced by nothing.
ReplacementOrEmpty(var_name, context) ==
    IF resolve_variable(var_name, context).some THEN resolve_variable(var_name, context).val
    ELSE <<>>

\* The closure handed to replace_all: the text that replaces {var_name}.
Replacement(var_name, context) ==
    IF resolve_variable(var_name, context).some THEN resolve_variable(var_name, context).val
    ELSE <<"{", "u", "n", "k", "n", "o", "w", "n", ":">> \o var_name \o <<"}">>

\* A mutant of ReplaceAllFrom: the scan goes on in the text it has inserted.
RECURSIVE ReplaceAllRescan(_, _, _)
ReplaceAllRescan(s, i, context) ==
    IF i > Len(s) THEN <<>>
    ELSE IF s[i] = "{" /\ VarClose(s, i + 1) > 0
    THEN ReplaceAllRescan(Replacement(SubSeq(s, i + 1, VarClose(s, i + 1) - 1), context)
                              \o SubSeq(s, VarClose(s, i + 1) + 1, Len(s)), 1, context)
    ELSE <<s[i]>> \o ReplaceAllRescan(s, i + 1, context)

\* Regex::replace_all from index i: leftmost matches, left to right, the text
\* between them copied.
RECURSIVE ReplaceAllFrom(_, _, _)
ReplaceAllFrom(s, i, context) ==
    IF i > Len(s) THEN <<>>
    ELSE IF s[i] = "{" /\ VarClose(s, i + 1) > 0
    THEN Replacement(SubSeq(s, i + 1, VarClose(s, i + 1) - 1), context)
            \o ReplaceAllFrom(s, VarClose(s, i + 1) + 1, context)
    ELSE <<s[i]>> \o ReplaceAllFrom(s, i + 1, context)

\* A mutant of apply_template: the scan misses the first character.
ApplyTemplateFromSecond(template, context) == Ok(ReplaceAllFrom(template, 2, context))

\* apply_template(template, context)
apply_template(template, context) == Ok(ReplaceAllFrom(template, 1, context))

(***************************************************************************)
(* Rule engine (pipeline/mod.rs).  A condition is held as the expression   *)
(* the rhai engine parses its text to:                                     *)
(*   [k |-> "bool", b], [k |-> "int", n], [k |-> "str", s]   literals      *)
(*   [k |-> "var", name]             a variable of the scope               *)
(*   [k |-> "member", obj, field]    obj.field                             *)
(*   [k |-> "eq", l, r], [k |-> "gt", l, r], [k |-> "and", l, r],          *)
(*   [k |-> "not", e]                                                      *)
(*   [k |-> "syntax_error"]          text that does not parse              *)
(***************************************************************************)
DynBool(b) == [t |-> "bool", n |-> IF b THEN 1 ELSE 0, s |-> EmptyStr]
DynFloat(e7) == [t |-> "float", n |-> e7, s |-> EmptyStr]
DynUnit == [t |-> "unit", n |-> 0, s |-> EmptyStr]
DynMap == [t |-> "map", n |-> 0, s |-> EmptyStr]

ScopeNames == {<<"t", "i", "m", "e">>, <<"s", "p", "a", "c", "e">>, <<"s", "o", "u", "r", "c", "e">>, <<"t", "y", "p", "e">>, <<"m", "e", "t", "a">>}

\* A property of one of the object maps pushed into the scope; a property
\* the map does not have reads as ().
ScopeMember(context, obj, field) ==
    IF obj = <<"t", "i", "m", "e">>
    THEN (IF field = <<"y", "y", "y", "y">> THEN DynStr(context.time.yyyy)
          ELSE IF field = <<"m", "m">> THEN DynStr(context.time.mm)
          ELSE IF field = <<"d", "d">> THEN DynStr(context.time.dd)
          ELSE IF field = <<"m", "o", "n", "t", "h", "_", "n", "a", "m", "e">> THEN DynStr(context.time.month_name)
          ELSE IF field = <<"w", "e", "e", "k", "d", "a", "y">> THEN DynStr(context.time.weekday)
          ELSE IF field = <<"h", "h">> THEN DynStr(context.time.hh)
          ELSE IF field = <<"m", "i", "n">> THEN DynStr(context.time.min)
          ELSE IF field = <<"s", "s">> THEN DynStr(context.time.ss)
          ELSE DynUnit)
    ELSE IF obj = <<"s", "p", "a", "c", "e">>
    THEN (IF field = <<"c", "o", "u", "n", "t", "r", "y">> THEN DynStr(context.space.country)
          ELSE IF field = <<"c", "o", "u", "n", "t", "r", "y", "_", "c", "o", "d", "e">> THEN DynStr(context.space.country_code)
          ELSE IF field = <<"s", "t", "a", "t", "e">> THEN DynStr(context.space.state)
          ELSE IF field = <<"c", "i", "t", "y">> THEN DynStr(context.space.city)
          ELSE IF field = <<"d", "i", "s", "t", "r", "i", "c", "t">> THEN DynStr(context.space.district)
          ELSE IF field = <<"r", "o", "a", "d">> THEN DynStr(context.space.road)
          ELSE IF field = <<"l", "a", "t">> THEN DynFloat(context.space.lat)
          ELSE IF field = <<"l", "o", "n">> THEN DynFloat(context.space.lon)
          ELSE DynUnit)
    ELSE IF obj = <<"s", "o", "u", "r", "c", "e">>
    THEN (IF field = <<"p", "a", "t", "h">> THEN DynStr(context.source.path)
          ELSE IF field = <<"n", "a", "m", "e">> THEN DynStr(context.source.name)
          ELSE IF field = <<"e", "x", "t", "e", "n", "s", "i", "o", "n">> THEN DynStr(context.source.extension)
          ELSE IF field = <<"o", "r", "i", "g", "i", "n", "a", "l">> THEN DynStr(context.source.original)
          ELSE IF field = <<"s", "i", "z", "e">> THEN DynInt(context.source.size)
          ELSE DynUnit)
    ELSE IF obj = <<"m", "e", "t", "a">>
    THEN (IF MetaGet(context.meta, field).some THEN MetaGet(context.meta, field).val
          ELSE DynUnit)
    ELSE DynUnit

\* engine.eval_expression_with_scope(scope, condition)
RECURSIVE Eval(_, _)
Eval(e, context) ==
    IF e.k = "syntax_error" THEN Err("syntax error")
    ELSE IF e.k = "bool" THEN Ok(DynBool(e.b))
    ELSE IF e.k = "int" THEN Ok(DynInt(e.n))
    ELSE IF e.k = "str" THEN Ok(DynStr(e.s))
    ELSE IF e.k = "var"
    THEN (IF e.name = <<"t", "y", "p", "e">> THEN Ok(DynStr(context.type))
          ELSE IF e.name \in ScopeNames THEN Ok(DynMap)
          ELSE Err("variable not found"))
    ELSE IF e.k = "member"
    THEN (IF e.obj = <<"t", "y", "p", "e">> THEN Err("unknown property")
          ELSE IF e.obj \in ScopeNames THEN Ok(ScopeMember(context, e.obj, e.field))
          ELSE Err("variable not found"))
    ELSE IF e.k = "not"
    THEN (LET v == Eval(e.e, context)
          IN  IF ~v.ok THEN v
              ELSE IF v.val.t = "bool" THEN Ok(DynBool(v.val.n = 0))
              ELSE Err("function not found"))
    ELSE LET l == Eval(e.l, context)
             r == Eval(e.r, context)
         IN  IF ~l.ok THEN l
             ELSE IF e.k = "and"
             THEN (IF l.val.t # "bool" THEN Err("data type incorrect")
                   ELSE IF l.val.n = 0 THEN Ok(DynBool(FALSE))
                   ELSE IF ~r.ok THEN r
                   ELSE IF r.val.t # "bool" THEN Err("data type incorrect")
                   ELSE r)
             ELSE IF ~r.ok THEN r
             ELSE IF e.k = "eq" THEN Ok(DynBool(l.val = r.val))
             ELSE Ok(DynBool(l.val.t = r.val.t /\ l.val.t \in {"int", "float"}
                             /\ l.val.n > r.val.n))

\* A mutant of evaluate_condition: a value that is no boolean counts as true.
EvaluateConditionTruthy(condition, context) ==
    LET result == Eval(condition, context)
    IN  IF ~result.ok THEN Err("Failed to evaluate condition")
        ELSE Ok(result.val.t # "bool" \/ result.val.n = 1)

\* A mutant of evaluate_condition: a failure of the evaluator counts as false.
EvaluateConditionOrFalse(condition, context) ==
    LET result == Eval(condition, context)
    IN  IF ~result.ok THEN Ok(FALSE)
        ELSE Ok(result.val.t = "bool" /\ result.val.n = 1)

\* RuleEngine::evaluate_condition(condition, context)
evaluate_condition(condition, context) ==
    LET result == Eval(condition, context)
    IN  IF ~result.ok THEN Err("Failed to evaluate condition")
        ELSE Ok(result.val.t = "bool" /\ result.val.n = 1)

\* A mutant of process_rule: the destination is the template as written.
ProcessRuleRaw(rule, context) ==
    LET c == evaluate_condition(rule.condition, context)
    IN  IF ~c.ok THEN Err(c.err)
        ELSE IF c.val THEN Ok(Some([destination |-> rule.template, action |-> rule.action]))
        ELSE Ok(None)

\* A mutant of process_rule: it matches whatever the condition gives.
ProcessRuleAlways(rule, context) ==
    Ok(Some([destination |-> apply_template(rule.template, context).val,
             action |-> rule.action]))

\* A mutant of process_rule: the test of the condition is inverted.
ProcessRuleInverted(rule, context) ==
    LET c == evaluate_condition(rule.condition, context)
    IN  IF ~c.ok THEN Err(c.err)
        ELSE IF ~c.val
        THEN Ok(Some([destination |-> apply_template(rule.template, context).val,
                      action |-> rule.action]))
        ELSE Ok(None)

\* RuleEngine::process_rule(rule, context)
process_rule(rule, context) ==
    LET c == evaluate_condition(rule.condition, context)
    IN  IF ~c.ok THEN Err(c.err)
        ELSE IF c.val
        THEN (LET destination == apply_template(rule.template, context)
              IN  IF destination.ok
                  THEN Ok(Some([destination |-> destination.val, action |-> rule.action]))
                  ELSE Err(destination.err))
        ELSE Ok(None)

\* str::split_once(':')
SplitOnce(s, c) ==
    LET k == IndexOf(s, c)
    IN  IF k = 0 THEN None
        ELSE Some([prefix |-> SubSeq(s, 1, k - 1), value |-> SubSeq(s, k + 1, Len(s))])

Cmdline == [variant |-> "Cmdline", s |-> EmptyStr]
Prefixed(s) == [variant |-> "Prefixed", s |-> s]

\* A mutant of parse_type: every prefixed input counts as a ruleset input.
ParseTypeAnyPrefix(input) ==
    IF input.variant = "Cmdline" THEN [prefix |-> <<"c", "m", "d", "l", "i", "n", "e">>, value |-> None]
    ELSE IF SplitOnce(input.s, ":").some
    THEN [prefix |-> <<"r", "u", "l", "e", "s", "e", "t">>, value |-> Some(SplitOnce(input.s, ":").val.value)]
    ELSE [prefix |-> <<"u", "n", "k", "n", "o", "w", "n">>, value |-> None]

\* InputSpec::parse_type
parse_type(input) ==
    IF input.variant = "Cmdline" THEN [prefix |-> <<"c", "m", "d", "l", "i", "n", "e">>, value |-> None]
    ELSE IF SplitOnce(input.s, ":").some
    THEN [prefix |-> SplitOnce(input.s, ":").val.prefix,
          value |-> Some(SplitOnce(input.s, ":").val.value)]
    ELSE [prefix |-> <<"u", "n", "k", "n", "o", "w", "n">>, value |-> None]

ActMove == [variant |-> "Move", s |-> EmptyStr]
ActCopy == [variant |-> "Copy", s |-> EmptyStr]
ActSymlink == [variant |-> "Symlink", s |-> EmptyStr]
ActHardlink == [variant |-> "Hardlink", s |-> EmptyStr]
ActCommand(s) == [variant |-> "Command", s |-> s]

\* ActionSpec::parse_action
parse_action(action) ==
    IF action.variant = "Move" THEN [prefix |-> <<"m", "o", "v", "e">>, value |-> None]
    ELSE IF action.variant = "Copy" THEN [prefix |-> <<"c", "o", "p", "y">>, value |-> None]
    ELSE IF action.variant = "Symlink" THEN [prefix |-> <<"s", "y", "m", "l", "i", "n", "k">>, value |-> None]
    ELSE IF action.variant = "Hardlink" THEN [prefix |-> <<"h", "a", "r", "d", "l", "i", "n", "k">>, value |-> None]
    ELSE IF SplitOnce(action.s, ":").some /\ SplitOnce(action.s, ":").val.prefix = <<"c", "m", "d">>
    THEN [prefix |-> <<"c", "m", "d">>, value |-> Some(SplitOnce(action.s, ":").val.value)]
    ELSE [prefix |-> <<"u", "n", "k", "n", "o", "w", "n">>, value |-> None]

(***************************************************************************)
(* Action executor (actions/mod.rs).  The world an action runs in:         *)
(*   files  the paths at which a file or a link exists                     *)
(*   dirs   the directories that exist                                     *)
(*   links  the symbolic links, [at, to]                                   *)
(*   cmds   the command lines handed to sh -c, in order                    *)
(***************************************************************************)
\* str::replace(pat, to): every non-overlapping occurrence, left to right.
RECURSIVE ReplaceStr(_, _, _)
ReplaceStr(s, pat, to) ==
    IF s = <<>> THEN <<>>
    ELSE IF StartsWith(s, pat) THEN to \o ReplaceStr(SubSeq(s, Len(pat) + 1, Len(s)), pat, to)
    ELSE <<Head(s)>> \o ReplaceStr(Tail(s), pat, to)

\* A directory and the directories above it.
RECURSIVE Ancestors(_)
Ancestors(dir) ==
    IF dir = <<>> \/ dir = <<"/">> THEN {}
    ELSE {dir} \cup (IF parent(dir).some THEN Ancestors(parent(dir).val) ELSE {})

\* fs::create_dir_all(dir) where the filesystem lets it succeed.
create_dir_all(w, dir) ==
    IF Ancestors(dir) \cap w.files # {} THEN Err("Failed to create directory")
    ELSE Ok([w EXCEPT !.dirs = w.dirs \cup Ancestors(dir)])

\* The action variant an ActionSpec stands for.
Custom(command) == [variant |-> "Custom", s |-> command]

\* execute_custom_command(command, source, destination): the command line.
CommandLine(command, source, destination) ==
    ReplaceStr(ReplaceStr(command, <<"{", "s", "o", "u", "r", "c", "e", "}">>, source), <<"{", "d", "e", "s", "t", "i", "n", "a", "t", "i", "o", "n", "}">>, destination)

\* The outcomes of the operation itself, after the parent directory exists.
\* `fails` is whether the operating system refuses an operation that the
\* state of the files would allow (another device, permissions, a command
\* that exits non-zero).
Operate(action, source, destination, w, fails) ==
    IF action.variant = "Custom"
    THEN [res |-> IF fails THEN Err("Custom command failed") ELSE Ok("done"),
          world |-> [w EXCEPT !.cmds = Append(w.cmds, CommandLine(action.s, source, destination))]]
    ELSE IF fails THEN [res |-> Err("Failed"), world |-> w]
    ELSE IF action.variant = "Move"
    THEN (IF source \notin w.files THEN [res |-> Err("Failed to move"), world |-> w]
          ELSE [res |-> Ok("done"),
                world |-> [w EXCEPT !.files = (w.files \ {source}) \cup {destination},
                                    !.links = {l \in w.links : l.at \notin {source, destination}}
                                        \cup {[at |-> destination, to |-> l.to] :
                                                l \in {m \in w.links : m.at = source}}]])
    ELSE IF action.variant = "Copy"
    THEN (IF source \notin w.files THEN [res |-> Err("Failed to copy"), world |-> w]
          ELSE [res |-> Ok("done"),
                world |-> [w EXCEPT !.files = w.files \cup {destination},
                                    !.links = {l \in w.links : l.at # destination}]])
    ELSE IF action.variant = "Symlink"
    THEN (IF destination \in w.files THEN [res |-> Err("Failed to symlink"), world |-> w]
          ELSE [res |-> Ok("done"),
                world |-> [w EXCEPT !.files = w.files \cup {destination},
                                    !.links = w.links \cup {[at |-> destination, to |-> source]}]])
    ELSE (IF source \notin w.files \/ destination \in w.files
          THEN [res |-> Err("Failed to hardlink"), world |-> w]
          ELSE [res |-> Ok("done"),
                world |-> [w EXCEPT !.files = w.files \cup {destination}]])

\* A mutant of execute: the operation runs before the parent directory is
\* made, and runs even when making it fails.
ExecuteNoParent(action, source, destination, w) ==
    {Operate(action, source, destination, w, fails) : fails \in BOOLEAN}

\* What the operating system can refuse although the state of the files
\* would allow it: nothing, the making of the parent directory, the
\* operation, or an operation that would cross a device boundary (rename and
\* link do not cross one).
Refusals == {"nothing", "mkdir", "operation", "exdev"}

\* A mutant of ExecuteWith: the parent directory is not made and the
\* operation runs whether or not it could be.
ExecuteWithNoParent(action, source, destination, w, refuses) ==
    Operate(action, source, destination, w,
            refuses = "operation"
                \/ (refuses = "exdev" /\ action.variant \in {"Move", "Hardlink"}))

\* Action::execute(source, destination) under one refusal.  create_dir_all
\* of the empty path returns Ok without asking the operating system.
ExecuteWith(action, source, destination, w, refuses) ==
    LET made == IF parent(destination).some THEN create_dir_all(w, parent(destination).val)
                ELSE Ok(w)
    IN  IF /\ parent(destination).some
           /\ ~made.ok \/ (refuses = "mkdir" /\ parent(destination).val # EmptyStr)
        THEN [res |-> Err("Failed to create directory"), world |-> w]
        ELSE Operate(action, source, destination, made.val,
                     refuses = "operation"
                         \/ (refuses = "exdev" /\ action.variant \in {"Move", "Hardlink"}))

\* Action::execute(source, destination): the results it can have.
execute(action, source, destination, w) ==
    {ExecuteWith(action, source, destination, w, refuses) : refuses \in Refusals}

(***************************************************************************)
(* Pipeline orchestrator: process_recursive and the per-file loop, as the  *)
(* specification describes them (section 4.6).                             *)
(***************************************************************************)
MaxDepth == 3

\* The action an ActionSpec is executed as.
ActionOf(spec) ==
    IF parse_action(spec).prefix = <<"m", "o", "v", "e">> THEN Ok(ActMove)
    ELSE IF parse_action(spec).prefix = <<"c", "o", "p", "y">> THEN Ok(ActCopy)
    ELSE IF parse_action(spec).prefix = <<"s", "y", "m", "l", "i", "n", "k">> THEN Ok(ActSymlink)
    ELSE IF parse_action(spec).prefix = <<"h", "a", "r", "d", "l", "i", "n", "k">> THEN Ok(ActHardlink)
    ELSE IF parse_action(spec).prefix = <<"c", "m", "d">> THEN Ok(Custom(parse_action(spec).value.val))
    ELSE Err("Unknown action")

IsEntry(rs) == parse_type(rs.input).prefix = <<"c", "m", "d", "l", "i", "n", "e">>

\* The indices, in declared order, of the rulesets whose input is cmdline.
EntryRulesets(p) ==
    SelectSeq([i \in 1..Len(p.rulesets) |-> i], LAMBDA i : IsEntry(p.rulesets[i]))

IsDependent(rs, name) ==
    /\ parse_type(rs.input).prefix = <<"r", "u", "l", "e", "s", "e", "t">>
    /\ parse_type(rs.input).value = Some(name)

\* The indices, in declared order, of the rulesets whose input is
\* ruleset:<name>.
DependentRulesets(p, name) ==
    SelectSeq([i \in 1..Len(p.rulesets) |-> i], LAMBDA i : IsDependent(p.rulesets[i], name))

\* The source block recomputed from the destination path.
RefreshSource(context, destination) ==
    [context EXCEPT !.source =
        [path |-> UnwrapOr(parent(destination), <<".">>),
         name |-> UnwrapOr(file_stem(destination), S_unknown),
         extension |-> UnwrapOr(extension(destination), EmptyStr),
         original |-> UnwrapOr(file_name(destination), S_unknown),
         size |-> context.source.size]]

\* A pending call of process_recursive: n is the number of the input file,
\* by the log index of the match that led to the call (0 for an entry
\* ruleset), scan the log index at which the call was entered, rule the
\* index of the rule to evaluate next.
Frame(rs, file, context, depth, by, n) ==
    [rs |-> rs, file |-> file, ctx |-> context, depth |-> depth, rule |-> 1,
     scan |-> 0, by |-> by, n |-> n]

Frames(indices, file, context, depth, by, n) ==
    [i \in 1..Len(indices) |-> Frame(indices[i], file, context, depth, by, n)]

\* An entry of the log sink.
Event(ev, f, rule, destination) ==
    [ev |-> ev, rs |-> f.rs, rule |-> rule, file |-> f.file, dst |-> destination,
     depth |-> f.depth, by |-> f.by, scan |-> f.scan, n |-> f.n, ctx |-> f.ctx]

(***************************************************************************)
(* The location history as a state machine                                 *)
(***************************************************************************)
QueryTargets == {5, 10, 15, 20, 25, 30, 35}

NoQuery == [target |-> 0, before |-> None, after |-> None, asked |-> FALSE]

HIdle == hpc = "idle" /\ takeout = [kind |-> "missing", locations |-> <<>>]
         /\ data = <<>> /\ found = NoQuery

NoFile == [path |-> EmptyStr]
EmptyWorld == [files |-> {}, dirs |-> {}, links |-> {}, cmds |-> <<>>]
WorldOf(files) ==
    [files |-> {files[i].path : i \in {j \in 1..Len(files) : files[j].stat}},
     dirs |-> {<<"i", "n">>}, links |-> {}, cmds |-> <<>>]

PIdle ==
    /\ opc = "idle" /\ ppl = [rulesets |-> <<>>] /\ dry_run = FALSE
    /\ inputs = <<>> /\ queue = <<>> /\ cur = NoFile /\ stack = <<>>
    /\ world = EmptyWorld /\ olog = <<>>
    /\ summary = [processed |-> 0, errors |-> 0]

TIdle ==
    /\ tpc = "idle" /\ tparts = <<>> /\ tctx = DefaultContext
    /\ tout = Err("not run") /\ tagain = Err("not run")

RIdle ==
    /\ rpc = "idle" /\ rrule = [condition |-> [k |-> "bool", b |-> FALSE], template |-> <<>>,
                                 action |-> ActCopy]
    /\ rctx = DefaultContext
    /\ rcond = Err("not run") /\ rout = Err("not run")

DIdle ==
    /\ dpc = "idle" /\ dinput = [path |-> EmptyStr, written |-> None, form |-> "other"]
    /\ ddate = None /\ dinstant = None

AIdle ==
    /\ apc = "idle"
    /\ acall = [action |-> ActMove, source |-> EmptyStr, destination |-> EmptyStr,
                world |-> EmptyWorld, refuses |-> "nothing"]
    /\ aout = [res |-> Err("not run"), world |-> EmptyWorld]

MIdle ==
    /\ mpc = "idle" /\ margs = [exists |-> FALSE, kind |-> "none", entries |-> <<>>]
    /\ mfiles = <<>> /\ mlog = <<>>
    /\ mcount = [processed |-> 0, skipped |-> 0]
    /\ mexit = None

CIdle ==
    /\ cpc = "idle" /\ cdoc = [kind |-> "none", inputs |-> <<>>]
    /\ cout = Err("not run")

NoResult == [res |-> Err("not run"), lookup |-> NoLookup]

EIdle ==
    /\ epc = "idle" /\ ppc = "idle"
    /\ efile = [path |-> EmptyStr]
    /\ ehist = None /\ emax = None
    /\ eout = NoResult /\ pout = Err("not run")

HInit ==
    /\ hpc = "start"
    /\ \/ takeout = [kind |-> "missing", locations |-> <<>>]
       \/ takeout = [kind |-> "malformed", locations |-> <<>>]
       \/ \E n \in 0..MaxLocs : \E f \in TakeoutChoices(n) :
              takeout = [kind |-> "json", locations |-> TakeoutDoc(n, f)]
    /\ data = <<>>
    /\ found = NoQuery
    /\ EIdle /\ PIdle /\ TIdle /\ RIdle /\ DIdle /\ AIdle /\ MIdle /\ CIdle

\* LocationHistory::from_json_file(path)
Load ==
    /\ hpc = "start"
    /\ LET r == from_json_file(takeout)
       IN  IF r.ok THEN hpc' = "loaded" /\ data' = r.val
           ELSE hpc' = "failed" /\ data' = <<>>
    /\ UNCHANGED <<takeout, found>>
    /\ UNCHANGED <<evars, pvars, tvars, rvars, dvars, avars, mvars, cvars>>

\* history.find_closest_points(target_timestamp_ms)
Query ==
    /\ hpc = "loaded"
    /\ \E t \in QueryTargets : \E res \in find_closest_points(data, t) :
           found' = [target |-> t, before |-> res.before, after |-> res.after,
                     asked |-> TRUE]
    /\ UNCHANGED <<hpc, takeout, data>>
    /\ UNCHANGED <<evars, pvars, tvars, rvars, dvars, avars, mvars, cvars>>

HNext == Load \/ Query

SpecHistory == HInit /\ [][HNext]_vars

(***************************************************************************)
(* Extraction as a state machine: one file, the location history and the   *)
(* --location-history-max-hours setting it is extracted with.              *)
(***************************************************************************)
MaxPoints == 2

T0 == 3 * MsPerDay

\* The EXIF tag sequences explored.
TagMenus ==
    { <<>>,
      << Entry(T_DateTimeOriginal, "str", <<"1", "9", "7", "0", ":", "0", "1", ":", "0", "4", " ", "0", "0", ":", "0", "0", ":", "0", "0">>, 0) >>,
      << Entry(T_CreateDate, "other", <<"T", "i", "m", "e", "(", "1", "9", "7", "0", "-", "0", "1", "-", "0", "4", "T", "0", "1", ":", "0", "0", ":", "0", "0", "+", "0", "2", ":", "0", "0", ")">>, 0) >>,
      << Entry(T_DateTimeOriginal, "str", <<"1", "9", "7", "0", "-", "0", "1", "-", "0", "4">>, 0) >>,
      << Entry(T_GPSInfo, "u32", EmptyStr, 722),
         Entry(T_Make, "str", <<"A", "C", "M", "E">>, 0),
         Entry(T_ImageWidth, "u32", EmptyStr, 640),
         [known |-> FALSE, tag |-> EmptyStr, code |-> 41, ok |-> TRUE, kind |-> "u32",
          text |-> EmptyStr, num |-> 7] >>,
      << Entry(T_DateTimeOriginal, "str", <<"1", "9", "7", "0", ":", "0", "1", ":", "0", "4", " ", "0", "0", ":", "0", "0", ":", "0", "0">>, 0),
         Entry(T_CreateDate, "other", <<"N", "a", "i", "v", "e", "D", "a", "t", "e", "T", "i", "m", "e", "(", "1", "9", "7", "0", "-", "0", "1", "-", "0", "4", "T", "0", "2", ":", "0", "0", ":", "0", "0", ")">>, 0) >>,
      << [Entry(T_DateTimeOriginal, "str", <<"1", "9", "7", "0", ":", "0", "1", ":", "0", "4", " ", "0", "0", ":", "0", "0", ":", "0", "0">>, 0) EXCEPT !.ok = FALSE],
         Entry(T_ExifImageHeight, "u32", EmptyStr, 480) >> }

\* What parse_gps_info reports: nothing, the origin, a place near Pittsburgh.
GpsMenus ==
    { None,
      Some([latitude |-> <<0, 0, 0>>, latitude_ref |-> "N",
            longitude |-> <<0, 0, 0>>, longitude_ref |-> "E", altitude |-> <<0, 1>>]),
      Some([latitude |-> <<40, 30, 0>>, latitude_ref |-> "N",
            longitude |-> <<79, 30, 0>>, longitude_ref |-> "W", altitude |-> <<300, 1>>]) }

\* What the EXIF parser reports of a file.
ExifMenus ==
    {[exif |-> x, gps |-> None, tags |-> <<>>] : x \in {"unreadable", "none", "parse_err"}}
    \cup {[exif |-> "reparse_err", gps |-> g, tags |-> <<>>] : g \in GpsMenus}
    \cup {[exif |-> "ok", gps |-> g, tags |-> t] : g \in GpsMenus, t \in TagMenus}

VideoExifMenus ==
    { [exif |-> "none", gps |-> None, tags |-> <<>>],
      [exif |-> "ok", gps |-> None,
       tags |-> << Entry(T_CreateDate, "str", <<"1", "9", "7", "0", ":", "0", "1", ":", "0", "4", " ", "0", "0", ":", "0", "0", ":", "0", "0">>, 0) >>] }

CreatedMenus == {None, Some(T0 + 1)}

File(path, mime, image, created, x) ==
    [path |-> path, stat |-> TRUE, size |-> 1024, mime |-> mime, image |-> image,
     created |-> created, exif |-> x.exif, gps |-> x.gps, tags |-> x.tags]

VideoNames ==
    { <<"i", "n", "/", "c", "l", "i", "p", ".", "m", "p", "4">>, <<"i", "n", "/", "V", "I", "D", "_", "1", "9", "7", "0", "0", "1", "0", "4", "_", "1", "8", "5", "3", "5", "2", ".", "m", "p", "4">>, <<"i", "n", "/", "1", "9", "7", "0", "-", "0", "1", "-", "0", "5", " ", "1", "5", ".", "4", "6", ".", "5", "5", ".", "m", "p", "4">>,
      <<"i", "n", "/", "V", "I", "D", "_", "1", "8", "9", "9", "0", "1", "0", "1", ".", "m", "p", "4">>, <<"i", "n", "/", "x", "1", "9", "7", "0", "0", "2", "3", "0", "_", "1", "9", "7", "0", "0", "1", "0", "6", ".", "m", "p", "4">>, <<"1", "9", "7", "0", ".", "0", "1", ".", "0", "5", ".", "m", "p", "4">>,
      <<"i", "n", "/", "1", "9", "7", "0", " ", "0", "1", " ", "0", "5", ".", "m", "p", "4">>, <<"i", "n", "/", "2", "1", "0", "1", "0", "1", "0", "5", "-", "1", ".", "m", "p", "4">> }

Files ==
    {File(<<"i", "n", "/", "I", "M", "G", "_", "1", ".", "j", "p", "g">>, "image", i, c, x) :
        i \in {None, Some([w |-> 800, h |-> 600])}, c \in CreatedMenus, x \in ExifMenus}
    \cup {File(<<"i", "n", "/", "I", "M", "G", "_", "1", "9", "7", "0", "0", "1", "0", "6", "_", "1", ".", "j", "p", "g">>, "image", None, c, [exif |-> "none", gps |-> None, tags |-> <<>>]) :
        c \in CreatedMenus}
    \cup {File(n, "video", None, c, x) : n \in VideoNames, c \in CreatedMenus, x \in VideoExifMenus}
    \cup {File(n, m, None, c, [exif |-> x, gps |-> None, tags |-> <<>>]) :
        n \in {<<"n", "o", "t", "e", "s", ".", "t", "x", "t">>}, m \in {"other", "none"}, c \in CreatedMenus,
        x \in {"none", "unreadable"}}
    \cup {[File(<<"i", "n", "/", "g", "o", "n", "e", ".", "j", "p", "g">>, "none", None, None, [exif |-> "unreadable", gps |-> None, tags |-> <<>>])
           EXCEPT !.stat = FALSE, !.size = 0]}

\* The timestamps of the history points explored, around T0.
PointTimes ==
    { T0 - 48 * MsPerHour - 1, T0 - 48 * MsPerHour, T0 - MsPerHour - 1, T0 - MsPerHour, T0,
      T0 + MsPerHour, T0 + MsPerHour + 1, T0 + 48 * MsPerHour, T0 + 48 * MsPerHour + 1 }

\* The point recorded at a timestamp: points before T0 lie near Pittsburgh,
\* the point one hour after T0 lies at the origin, later ones near Takoradi.
PointAt(ts) ==
    IF ts = T0 + MsPerHour THEN LocationPoint(ts, 0, 0)
    ELSE IF ts <= T0 THEN LocationPoint(ts, 40 * E7 + ((T0 - ts) \div MsPerHour),
                                        -80 * E7 - ((T0 - ts) % MsPerHour))
    ELSE LocationPoint(ts, 5 * E7 + ((ts - T0) \div MsPerHour), -2 * E7 - ((ts - T0) % MsPerHour))

\* A loaded history: the points at the timestamps of S, sorted.
RECURSIVE HistoryOf(_)
HistoryOf(S) ==
    IF S = {} THEN <<>>
    ELSE LET m == CHOOSE t \in S : \A u \in S : t <= u
         IN  <<PointAt(m)>> \o HistoryOf(S \ {m})

MaxHoursMenus == {None, Some(1)}

EInit ==
    /\ epc = "start" /\ ppc = "start"
    /\ efile \in Files
    /\ \/ ehist = None
       \/ \E S \in SUBSET PointTimes :
              Cardinality(S) <= MaxPoints /\ ehist = Some(HistoryOf(S))
    /\ emax \in MaxHoursMenus
    /\ eout = NoResult /\ pout = Err("not run")
    /\ HIdle /\ PIdle /\ TIdle /\ RIdle /\ DIdle /\ AIdle /\ MIdle /\ CIdle

\* extractor.rs: extract_metadata_with_location_history(path, history, max_hours)
Extract ==
    /\ epc = "start"
    /\ \E r \in extract_metadata_with_location_history(efile, ehist, emax) :
           eout' = r /\ epc' = IF r.res.ok THEN "done" ELSE "failed"
    /\ UNCHANGED <<efile, ehist, emax, ppc, pout>>
    /\ UNCHANGED <<hvars, pvars, tvars, rvars, dvars, avars, mvars, cvars>>

\* main.rs: extract_metadata(path)
ProtoExtract ==
    /\ ppc = "start"
    /\ pout' = extract_metadata(efile)
    /\ ppc' = "done"
    /\ UNCHANGED <<efile, ehist, emax, epc, eout>>
    /\ UNCHANGED <<hvars, pvars, tvars, rvars, dvars, avars, mvars, cvars>>

ENext == Extract \/ ProtoExtract

SpecExtract == EInit /\ [][ENext]_vars

(***************************************************************************)
(* The pipeline as a state machine: a configuration, a set of input files  *)
(* in discovery order, and the run over them.                              *)
(***************************************************************************)
ETrue == [k |-> "bool", b |-> TRUE]
EFalse == [k |-> "bool", b |-> FALSE]
CondIsImage == [k |-> "eq", l |-> [k |-> "var", name |-> <<"t", "y", "p", "e">>], r |-> [k |-> "str", s |-> <<"i", "m", "a", "g", "e">>]]
CondGeoWide ==
    [k |-> "and",
     l |-> [k |-> "not", e |-> [k |-> "eq", l |-> [k |-> "member", obj |-> <<"s", "p", "a", "c", "e">>, field |-> <<"c", "i", "t", "y">>],
                                r |-> [k |-> "str", s |-> <<"u", "n", "k", "n", "o", "w", "n">>]]],
     r |-> [k |-> "gt", l |-> [k |-> "member", obj |-> <<"m", "e", "t", "a">>, field |-> <<"I", "m", "a", "g", "e", "W", "i", "d", "t", "h">>],
            r |-> [k |-> "int", n |-> 500]]]

Rule(condition, template, action) ==
    [condition |-> condition, template |-> template, action |-> action]

R_false == Rule(EFalse, <<"n", "e", "v", "e", "r", "/", "{", "s", "o", "u", "r", "c", "e", ".", "o", "r", "i", "g", "i", "n", "a", "l", "}">>, ActCopy)
R_err == Rule([k |-> "var", name |-> <<"n", "o", "s", "u", "c", "h">>], <<"e", "r", "r", "/", "{", "s", "o", "u", "r", "c", "e", ".", "o", "r", "i", "g", "i", "n", "a", "l", "}">>, ActMove)
R_nonbool == Rule([k |-> "int", n |-> 42], <<"n", "u", "m", "/", "{", "s", "o", "u", "r", "c", "e", ".", "o", "r", "i", "g", "i", "n", "a", "l", "}">>, ActCopy)
R_syntax == Rule([k |-> "syntax_error"], <<"s", "y", "n", "/", "{", "s", "o", "u", "r", "c", "e", ".", "o", "r", "i", "g", "i", "n", "a", "l", "}">>, ActCopy)
R_img_move == Rule(CondIsImage, <<"i", "m", "g", "/", "{", "t", "i", "m", "e", ".", "y", "y", "y", "y", "}", "/", "{", "s", "o", "u", "r", "c", "e", ".", "n", "a", "m", "e", "}", ".", "{", "s", "o", "u", "r", "c", "e", ".", "e", "x", "t", "e", "n", "s", "i", "o", "n", "}">>, ActMove)
R_true_copy == Rule(ETrue, <<"o", "u", "t", "/", "{", "t", "y", "p", "e", "}", "/", "{", "s", "o", "u", "r", "c", "e", ".", "o", "r", "i", "g", "i", "n", "a", "l", "}">>, ActCopy)
R_cmd == Rule(CondGeoWide, <<"g", "e", "o", "/", "{", "s", "p", "a", "c", "e", ".", "c", "o", "u", "n", "t", "r", "y", "}", "/", "{", "s", "p", "a", "c", "e", ".", "c", "i", "t", "y", "}", "/", "{", "s", "o", "u", "r", "c", "e", ".", "o", "r", "i", "g", "i", "n", "a", "l", "}">>,
              ActCommand(<<"c", "m", "d", ":", "c", "p", " ", "{", "s", "o", "u", "r", "c", "e", "}", " ", "{", "d", "e", "s", "t", "i", "n", "a", "t", "i", "o", "n", "}">>))
R_link == Rule(ETrue, <<"l", "i", "n", "k", "s", "/", "{", "s", "o", "u", "r", "c", "e", ".", "o", "r", "i", "g", "i", "n", "a", "l", "}">>, ActSymlink)
R_hard == Rule(ETrue, <<"a", "r", "c", "h", "i", "v", "e", "/", "{", "t", "i", "m", "e", ".", "y", "y", "y", "y", "}", "-", "{", "t", "i", "m", "e", ".", "m", "m", "}", "/", "{", "s", "o", "u", "r", "c", "e", ".", "o", "r", "i", "g", "i", "n", "a", "l", "}">>, ActHardlink)
R_stage == Rule(ETrue, <<"s", "t", "a", "g", "e", "1", "/", "{", "s", "o", "u", "r", "c", "e", ".", "o", "r", "i", "g", "i", "n", "a", "l", "}">>, ActCopy)

EntryRules ==
    { <<>>, <<R_false, R_true_copy>>, <<R_err, R_img_move, R_true_copy>>,
      <<R_nonbool, R_cmd, R_link>>, <<R_false, R_nonbool, R_syntax>>, <<R_img_move>>,
      <<R_true_copy, R_cmd>>, <<R_stage>> }

SecondInputs ==
    { Prefixed(<<"r", "u", "l", "e", "s", "e", "t", ":", "A">>), Prefixed(<<"r", "u", "l", "e", "s", "e", "t", ":", "B">>), Prefixed(<<"o", "t", "h", "e", "r", ":", "A">>),
      Prefixed(<<"A">>), Cmdline }

SecondRules == { <<R_hard>>, <<R_false>>, <<R_err, R_link>> }

ThirdRulesets ==
    { <<>> } \cup
    { << [name |-> <<"C">>, input |-> Prefixed(i), rules |-> <<R_cmd, R_true_copy>>] >> :
        i \in {<<"r", "u", "l", "e", "s", "e", "t", ":", "A">>, <<"r", "u", "l", "e", "s", "e", "t", ":", "B">>} } \cup
    { << [name |-> <<"C">>, input |-> Prefixed(<<"r", "u", "l", "e", "s", "e", "t", ":", "A">>), rules |-> <<R_link>>],
         [name |-> <<"D">>, input |-> Prefixed(<<"o", "t", "h", "e", "r", ":", "A">>), rules |-> <<R_true_copy>>] >>,
      \* a second ruleset named A that consumes what A produces: a cycle
      << [name |-> <<"A">>, input |-> Prefixed(<<"r", "u", "l", "e", "s", "e", "t", ":", "A">>), rules |-> <<R_true_copy>>] >> }

Pipelines ==
    { [rulesets |-> << [name |-> <<"A">>, input |-> Cmdline, rules |-> ra],
                       [name |-> <<"B">>, input |-> ib, rules |-> rb] >> \o c] :
        ra \in EntryRules, ib \in SecondInputs, rb \in SecondRules, c \in ThirdRulesets }

NoGps == [exif |-> "none", gps |-> None, tags |-> <<>>]

F_img ==
    File(<<"i", "n", "/", "I", "M", "G", "_", "1", ".", "j", "p", "g">>, "image", Some([w |-> 800, h |-> 600]), Some(T0 + 1),
         [exif |-> "ok",
          gps |-> Some([latitude |-> <<40, 30, 0>>, latitude_ref |-> "N",
                        longitude |-> <<79, 30, 0>>, longitude_ref |-> "W",
                        altitude |-> <<300, 1>>]),
          tags |-> << Entry(T_DateTimeOriginal, "str", <<"1", "9", "7", "0", ":", "0", "1", ":", "0", "4", " ", "0", "0", ":", "0", "0", ":", "0", "0">>, 0) >>])
F_vid == File(<<"i", "n", "/", "c", "l", "i", "p", ".", "m", "p", "4">>, "video", None, None, NoGps)
F_gone == [File(<<"i", "n", "/", "g", "o", "n", "e", ".", "j", "p", "g">>, "none", None, None, NoGps) EXCEPT !.stat = FALSE, !.size = 0]

InputSets == { <<F_img>>, <<F_vid>>, <<F_gone, F_img>>, <<F_img, F_vid>> }

\* The orchestrator extracts with the configured history; the runs explored
\* have none configured.
ExtractFor(f) ==
    (CHOOSE r \in extract_metadata_with_location_history(f, None, None) : TRUE).res

PInit ==
    /\ opc = "run"
    /\ ppl \in Pipelines
    /\ dry_run \in BOOLEAN
    /\ inputs \in InputSets
    /\ queue = inputs
    /\ cur = NoFile /\ stack = <<>>
    /\ world = WorldOf(inputs)
    /\ olog = <<>>
    /\ summary = [processed |-> 0, errors |-> 0]
    /\ HIdle /\ EIdle /\ TIdle /\ RIdle /\ DIdle /\ AIdle /\ MIdle /\ CIdle

\* The number, in discovery order, of the file taken next.
FileNo == Len(inputs) - Len(queue) + 1

Top == stack[1]
TopRuleset == ppl.rulesets[Top.rs]

\* The per-file loop takes the next file: metadata is extracted once and
\* every cmdline ruleset is queued for it at depth 0.
StartFile ==
    /\ opc = "run" /\ cur = NoFile /\ queue # <<>>
    /\ LET f == Head(queue)
           r == ExtractFor(f)
       IN  IF r.ok
           THEN /\ cur' = f
                /\ stack' = Frames(EntryRulesets(ppl), f.path, r.val, 0, 0, FileNo)
                /\ UNCHANGED <<summary, olog>>
           ELSE /\ cur' = NoFile
                /\ stack' = <<>>
                /\ summary' = [summary EXCEPT !.errors = @ + 1]
                /\ olog' = Append(olog, [ev |-> "file_error", rs |-> 0, rule |-> 0,
                                         file |-> f.path, dst |-> EmptyStr, depth |-> 0,
                                         by |-> 0, scan |-> 0, n |-> FileNo,
                                         ctx |-> DefaultContext])
    /\ queue' = Tail(queue)
    /\ UNCHANGED <<opc, ppl, dry_run, inputs, world>>
    /\ UNCHANGED <<hvars, evars, tvars, rvars, dvars, avars, mvars, cvars>>

\* process_recursive(file, context, ruleset, depth) is entered.
BeginScan ==
    /\ opc = "run" /\ stack # <<>> /\ Top.scan = 0
    /\ stack' = [stack EXCEPT ![1].scan = Len(olog) + 1]
    /\ olog' = Append(olog, Event("scan", [Top EXCEPT !.scan = Len(olog) + 1], 0, EmptyStr))
    /\ UNCHANGED <<opc, ppl, dry_run, inputs, queue, cur, world, summary>>
    /\ UNCHANGED <<hvars, evars, tvars, rvars, dvars, avars, mvars, cvars>>

\* The frames of the rulesets that depend on the ruleset of frame f, for the
\* match logged at index by.
DependentFrames(f, destination, by) ==
    Frames(DependentRulesets(ppl, ppl.rulesets[f.rs].name), destination,
           RefreshSource(f.ctx, destination), f.depth + 1, by, f.n)

\* One rule of the ruleset being scanned: its condition is evaluated; an
\* evaluation error makes it a non-matching rule; on a match the action is
\* executed (logged only, in dry-run mode), scanning of this ruleset stops and
\* the dependent rulesets are entered with the destination.  Nothing limits
\* the depth of the recursion; the runs explored are followed down to
\* MaxDepth and no further.
ScanRule ==
    /\ opc = "run" /\ stack # <<>> /\ Top.scan > 0 /\ Top.rule <= Len(TopRuleset.rules)
    /\ LET rule == TopRuleset.rules[Top.rule]
           r == process_rule(rule, Top.ctx)
       IN  IF ~r.ok
           THEN /\ olog' = Append(olog, Event("rule_error", Top, Top.rule, EmptyStr))
                /\ stack' = [stack EXCEPT ![1].rule = @ + 1]
                /\ UNCHANGED <<world, cur, summary>>
           ELSE IF ~r.val.some
           THEN /\ stack' = [stack EXCEPT ![1].rule = @ + 1]
                /\ UNCHANGED <<olog, world, cur, summary>>
           ELSE LET dst == r.val.val.destination
                    act == ActionOf(r.val.val.action)
                    Matched == /\ Top.depth < MaxDepth \/ DependentFrames(Top, dst, 0) = <<>>
                               /\ olog' = Append(olog, Event("match", Top, Top.rule, dst))
                               /\ stack' = DependentFrames(Top, dst, Len(olog) + 1)
                                              \o Tail(stack)
                               /\ UNCHANGED <<cur, summary>>
                    Failed == /\ olog' = Append(olog, Event("action_error", Top, Top.rule, dst))
                              /\ stack' = <<>>
                              /\ cur' = NoFile
                              /\ summary' = [summary EXCEPT !.errors = @ + 1]
                IN  IF dry_run THEN Matched /\ UNCHANGED world
                    ELSE IF ~act.ok THEN Failed /\ UNCHANGED world
                    ELSE \E out \in execute(act.val, Top.file, dst, world) :
                            /\ world' = out.world
                            /\ IF out.res.ok THEN Matched ELSE Failed
    /\ UNCHANGED <<opc, ppl, dry_run, inputs, queue>>
    /\ UNCHANGED <<hvars, evars, tvars, rvars, dvars, avars, mvars, cvars>>

\* No rule of the ruleset matched.
NoMatch ==
    /\ opc = "run" /\ stack # <<>> /\ Top.scan > 0 /\ Top.rule > Len(TopRuleset.rules)
    /\ olog' = Append(olog, Event("no_match", Top, 0, EmptyStr))
    /\ stack' = Tail(stack)
    /\ UNCHANGED <<opc, ppl, dry_run, inputs, queue, cur, world, summary>>
    /\ UNCHANGED <<hvars, evars, tvars, rvars, dvars, avars, mvars, cvars>>

\* Every ruleset entered for the file has completed.
FinishFile ==
    /\ opc = "run" /\ stack = <<>> /\ cur # NoFile
    /\ cur' = NoFile
    /\ summary' = [summary EXCEPT !.processed = @ + 1]
    /\ UNCHANGED <<opc, ppl, dry_run, inputs, queue, stack, world, olog>>
    /\ UNCHANGED <<hvars, evars, tvars, rvars, dvars, avars, mvars, cvars>>

\* The input set is exhausted.
FinishRun ==
    /\ opc = "run" /\ stack = <<>> /\ cur = NoFile /\ queue = <<>>
    /\ opc' = "done"
    /\ UNCHANGED <<ppl, dry_run, inputs, queue, cur, stack, world, olog, summary>>
    /\ UNCHANGED <<hvars, evars, tvars, rvars, dvars, avars, mvars, cvars>>

PNext == StartFile \/ BeginScan \/ ScanRule \/ NoMatch \/ FinishFile \/ FinishRun

SpecPipeline == PInit /\ [][PNext]_vars

(***************************************************************************)
(* The template expander as a state machine: a template written as parts   *)
(* (text, or a placeholder {name}), a context, one expansion and the        *)
(* expansion of its result.                                                 *)
(***************************************************************************)
Lit(text) == [kind |-> "lit", text |-> text]
Var(name) == [kind |-> "var", text |-> name]

TLiterals == { Lit(<<"x", "/">>), Lit(<<"{">>), Lit(<<"}">>), Lit(<<"{", "a">>) }

TNames ==
    { <<"t", "y", "p", "e">>, <<"s", "o", "u", "r", "c", "e", ".", "n", "a", "m", "e">>, <<"s", "o", "u", "r", "c", "e", ".", "e", "x", "t", "e", "n", "s", "i", "o", "n">>, <<"m", "e", "t", "a", ".", "M", "a", "k", "e">>,
      <<"m", "e", "t", "a", ".", "N", "o", "p", "e">>, <<"n", "o", "s", "u", "c", "h", ".", "x">>, <<"t", "i", "m", "e", ".", "z", "z">>, <<"t", "i", "m", "e">>, <<"t", "y", "p", "e", ".", "x">> }

TParts == TLiterals \cup {Var(n) : n \in TNames}

MaxParts == 3

\* The fields of the time, space and source blocks (metadata/context.rs), as
\* references.
BlockFields ==
    { <<"t", "i", "m", "e", ".">> \o f : f \in { <<"y", "y", "y", "y">>, <<"m", "m">>, <<"d", "d">>, <<"h", "h">>, <<"m", "i", "n">>, <<"s", "s">>, <<"m", "o", "n", "t", "h", "_", "n", "a", "m", "e">>,
                              <<"w", "e", "e", "k", "d", "a", "y">>, <<"t", "i", "m", "e", "s", "t", "a", "m", "p">> } }
    \cup { <<"s", "p", "a", "c", "e", ".">> \o f : f \in { <<"c", "o", "u", "n", "t", "r", "y">>, <<"c", "o", "u", "n", "t", "r", "y", "_", "c", "o", "d", "e">>, <<"s", "t", "a", "t", "e">>, <<"c", "i", "t", "y">>, <<"d", "i", "s", "t", "r", "i", "c", "t">>,
                                    <<"r", "o", "a", "d">>, <<"l", "a", "t">>, <<"l", "o", "n">>, <<"a", "l", "t", "i", "t", "u", "d", "e">> } }
    \cup { <<"s", "o", "u", "r", "c", "e", ".">> \o f : f \in { <<"p", "a", "t", "h">>, <<"n", "a", "m", "e">>, <<"e", "x", "t", "e", "n", "s", "i", "o", "n">>, <<"o", "r", "i", "g", "i", "n", "a", "l">>, <<"s", "i", "z", "e">> } }

\* The templates explored: those of up to MaxParts parts, no two pieces of
\* text side by side so that a placeholder is exactly a Var part, and one
\* placeholder for each field of the three blocks, alone and after a text.
MenuTemplates ==
    {t \in SeqsUpTo(TParts, MaxParts) :
        \A k \in 1..(Len(t) - 1) : ~(t[k].kind = "lit" /\ t[k + 1].kind = "lit")}

Templates ==
    MenuTemplates
    \cup {<<Var(n)>> : n \in BlockFields}
    \cup {<<Lit(<<"x", "/">>), Var(n)>> : n \in BlockFields}

RECURSIVE TemplateText(_)
TemplateText(t) ==
    IF t = <<>> THEN <<>>
    ELSE (IF Head(t).kind = "lit" THEN Head(t).text ELSE <<"{">> \o Head(t).text \o <<"}">>)
            \o TemplateText(Tail(t))

\* The files the contexts are extracted from: an ordinary photo, and photos
\* whose name and Make tag are themselves written like placeholders.
TFile(path, make) ==
    File(path, "image", Some([w |-> 800, h |-> 600]), Some(T0 + 1),
         [exif |-> "ok",
          gps |-> Some([latitude |-> <<40, 30, 0>>, latitude_ref |-> "N",
                        longitude |-> <<79, 30, 0>>, longitude_ref |-> "W",
                        altitude |-> <<300, 1>>]),
          tags |-> << Entry(T_Make, "str", make, 0) >>])

TFiles ==
    { TFile(<<"i", "n", "/", "I", "M", "G", "_", "1", ".", "j", "p", "g">>, <<"C", "a", "n", "o", "n">>),
      TFile(<<"i", "n", "/", "{", "t", "y", "p", "e", "}", ".", "j", "p", "g">>, <<"{", "t", "i", "m", "e", ".", "y", "y", "y", "y", "}">>),
      TFile(<<"i", "n", "/", "a", "}">>, <<"{", "n", "o", "s", "u", "c", "h", "}">>),
      TFile(<<"i", "n", "/", "{", "u", "n", "k", "n", "o", "w", "n", ":", "t", "y", "p", "e", "}", ".", "{", "t", "y", "p", "e", "}">>, <<"}">>) }

TInit ==
    /\ tpc = "start"
    /\ tparts \in Templates
    /\ \E f \in TFiles : tctx = ExtractFor(f).val
    /\ tout = Err("not run") /\ tagain = Err("not run")
    /\ HIdle /\ EIdle /\ PIdle /\ RIdle /\ DIdle /\ AIdle /\ MIdle /\ CIdle

\* apply_template(template, context)
Expand ==
    /\ tpc = "start"
    /\ tout' = apply_template(TemplateText(tparts), tctx)
    /\ tpc' = "expanded"
    /\ UNCHANGED <<tparts, tctx, tagain>>
    /\ UNCHANGED <<hvars, evars, pvars, rvars, dvars, avars, mvars, cvars>>

\* apply_template(result, context): the result expanded again.
ExpandAgain ==
    /\ tpc = "expanded" /\ tout.ok
    /\ tagain' = apply_template(tout.val, tctx)
    /\ tpc' = "again"
    /\ UNCHANGED <<tparts, tctx, tout>>
    /\ UNCHANGED <<hvars, evars, pvars, rvars, dvars, avars, mvars, cvars>>

TNext == Expand \/ ExpandAgain

SpecTemplate == TInit /\ [][TNext]_vars

(***************************************************************************)
(* The rule engine as a state machine: a rule and a context, the condition  *)
(* evaluated, the rule processed.                                           *)
(***************************************************************************)
EVar(name) == [k |-> "var", name |-> name]
EMember(obj, field) == [k |-> "member", obj |-> obj, field |-> field]
EInt(n) == [k |-> "int", n |-> n]
EStr(s) == [k |-> "str", s |-> s]

Conditions ==
    { ETrue, EFalse, CondIsImage, CondGeoWide,
      [k |-> "eq", l |-> EVar(<<"t", "y", "p", "e">>), r |-> EStr(<<"v", "i", "d", "e", "o">>)],
      [k |-> "gt", l |-> EMember(<<"m", "e", "t", "a">>, <<"I", "m", "a", "g", "e", "W", "i", "d", "t", "h">>), r |-> EInt(500)],
      [k |-> "not", e |-> CondIsImage],
      \* values that are no boolean
      EInt(42), EInt(0), EStr(<<"t", "r", "u", "e">>), EVar(<<"t", "i", "m", "e">>), EVar(<<"t", "y", "p", "e">>),
      EMember(<<"s", "p", "a", "c", "e">>, <<"l", "a", "t">>), EMember(<<"t", "i", "m", "e">>, <<"y", "y", "y", "y">>), EMember(<<"m", "e", "t", "a">>, <<"N", "o", "p", "e">>),
      \* failures of the evaluator
      [k |-> "syntax_error"], EVar(<<"n", "o", "s", "u", "c", "h">>), EMember(<<"n", "o", "s", "u", "c", "h">>, <<"x">>),
      [k |-> "not", e |-> EInt(1)],
      [k |-> "and", l |-> EInt(1), r |-> ETrue] }

RTemplates == { <<"o", "u", "t", "/", "{", "t", "i", "m", "e", ".", "y", "y", "y", "y", "}", "/", "{", "s", "o", "u", "r", "c", "e", ".", "o", "r", "i", "g", "i", "n", "a", "l", "}">>, <<"{", "m", "e", "t", "a", ".", "N", "o", "p", "e", "}", "/", "{", "s", "o", "u", "r", "c", "e", ".", "n", "a", "m", "e", "}">> }

RRules ==
    { Rule(c, t, a) : c \in Conditions, t \in RTemplates,
                      a \in {ActMove, ActCommand(<<"c", "m", "d", ":", "c", "p", " ", "{", "s", "o", "u", "r", "c", "e", "}", " ", "{", "d", "e", "s", "t", "i", "n", "a", "t", "i", "o", "n", "}">>)} }

RFiles == {F_img, F_vid} \cup TFiles

RInit ==
    /\ rpc = "start"
    /\ rrule \in RRules
    /\ \E f \in RFiles : rctx = ExtractFor(f).val
    /\ rcond = Err("not run") /\ rout = Err("not run")
    /\ HIdle /\ EIdle /\ PIdle /\ TIdle /\ DIdle /\ AIdle /\ MIdle /\ CIdle

\* RuleEngine::evaluate_condition(condition, context)
EvaluateCondition ==
    /\ rpc = "start"
    /\ rcond' = evaluate_condition(rrule.condition, rctx)
    /\ rpc' = "evaluated"
    /\ UNCHANGED <<rrule, rctx, rout>>
    /\ UNCHANGED <<hvars, evars, pvars, tvars, dvars, avars, mvars, cvars>>

\* RuleEngine::process_rule(rule, context)
ProcessRule ==
    /\ rpc = "evaluated"
    /\ rout' = process_rule(rrule, rctx)
    /\ rpc' = "done"
    /\ UNCHANGED <<rrule, rctx, rcond>>
    /\ UNCHANGED <<hvars, evars, pvars, tvars, dvars, avars, mvars, cvars>>

RNext == EvaluateCondition \/ ProcessRule

SpecRule == RInit /\ [][RNext]_vars

(***************************************************************************)
(* The file-name date as a state machine: a file name, the date picked     *)
(* from it, the instant returned.                                          *)
(***************************************************************************)
Date(y, m, d) == [year |-> y, month |-> m, day |-> d]

WrittenYears == {1899, 1900, 1969, 1970, 2023, 2024, 2100, 2101}
WrittenMonths == {0, 1, 2, 12, 13}
WrittenDays == {0, 1, 24, 29, 30, 31, 32}
WrittenDates == {Date(y, m, d) : y \in WrittenYears, m \in WrittenMonths, d \in WrittenDays}

\* A name of each form for a written date: VID_YYYYMMDD_1.mp4 holds one
\* 8-digit window; YYYY-MM-DD x.mp4, YYYY.MM.DD x.mp4 and YYYY MM DD x.mp4
\* hold none.
DigitsName(w) ==
    <<"i", "n", "/", "V", "I", "D", "_">> \o Pad4(w.year) \o Pad2(w.month) \o Pad2(w.day) \o <<"_", "1", ".", "m", "p", "4">>
DashedName(w) ==
    <<"i", "n", "/">> \o Pad4(w.year) \o <<"-">> \o Pad2(w.month) \o <<"-">> \o Pad2(w.day) \o <<" ", "x", ".", "m", "p", "4">>

SeparatedName(w, sep) ==
    <<"i", "n", "/">> \o Pad4(w.year) \o <<sep>> \o Pad2(w.month) \o <<sep>> \o Pad2(w.day) \o <<" ", "x", ".", "m", "p", "4">>

DateInputs ==
    {[path |-> DigitsName(w), written |-> Some(w), form |-> "digits"] : w \in WrittenDates}
    \cup {[path |-> DashedName(w), written |-> Some(w), form |-> "-"] : w \in WrittenDates}
    \cup {[path |-> SeparatedName(w, sep), written |-> Some(w), form |-> sep] :
          w \in WrittenDates, sep \in {".", " "}}
    \cup {[path |-> p, written |-> None, form |-> "other"] : p \in VideoNames}
    \cup {[path |-> p, written |-> None, form |-> "other"] :
          p \in {<<"i", "n", "/", "1", "9", "7", "0", "-", "1", "-", "5", ".", "m", "p", "4">>, <<"i", "n", "/", "V", "I", "D", "-", "1", "9", "7", "0", "-", "0", "1", "-", "0", "5", ".", "m", "p", "4">>, <<"i", "n", "/", "1", "9", "7", "0", "_", "0", "1", "-", "0", "5", ".", "m", "p", "4">>,
                 <<"i", "n", "/", "+", "1", "9", "7", "0", "-", "+", "1", "-", "+", "5", ".", "m", "p", "4">>, <<"i", "n", "/", "2", "1", "9", "7", "0", "0", "1", "0", "5", ".", "m", "p", "4">>, <<"i", "n", "/", "1", "9", "7", "0", "0", "1", "0", ".", "m", "p", "4">>}}

\* The instants explored are those a 32-bit integer of milliseconds holds.
RepresentableDays == (2^30 \div MsPerDay) * 2
Representable(date) ==
    /\ ValidDate(date.year, date.month, date.day)
    /\ days_from_civil(date.year, date.month, date.day) \in
           (0 - RepresentableDays)..RepresentableDays

DInit ==
    /\ dpc = "start"
    /\ dinput \in DateInputs
    /\ ddate = None /\ dinstant = None
    /\ HIdle /\ EIdle /\ PIdle /\ TIdle /\ RIdle /\ AIdle /\ MIdle /\ CIdle

\* extract_date_from_filename(path), up to NaiveDate::from_ymd_opt
PickDate ==
    /\ dpc = "start"
    /\ ddate' = FilenameDate(dinput.path)
    /\ dpc' = "dated"
    /\ UNCHANGED <<dinput, dinstant>>
    /\ UNCHANGED <<hvars, evars, pvars, tvars, rvars, avars, mvars, cvars>>

\* extract_date_from_filename(path), the instant returned
ToInstant ==
    /\ dpc = "dated"
    /\ ddate.some => Representable(ddate.val)
    /\ dinstant' = extract_date_from_filename(dinput.path)
    /\ dpc' = "done"
    /\ UNCHANGED <<dinput, ddate>>
    /\ UNCHANGED <<hvars, evars, pvars, tvars, rvars, avars, mvars, cvars>>

DNext == PickDate \/ ToInstant

SpecFilenameDate == DInit /\ [][DNext]_vars

(***************************************************************************)
(* The action executor as a state machine: an action, a source, a          *)
(* destination, the world it runs in and what the operating system         *)
(* refuses; then the result of execute.                                    *)
(***************************************************************************)
ACommands == {<<"c", "p", " ", "{", "s", "o", "u", "r", "c", "e", "}", " ", "{", "d", "e", "s", "t", "i", "n", "a", "t", "i", "o", "n", "}">>, <<"e", "c", "h", "o", " ", "{", "d", "e", "s", "t", "i", "n", "a", "t", "i", "o", "n", "}", " ", "{", "s", "o", "u", "r", "c", "e", "}", " ", "{", "s", "o", "u", "r", "c", "e", "}">>}
AActions == {ActMove, ActCopy, ActSymlink, ActHardlink} \cup {Custom(c) : c \in ACommands}
ASources == {<<"i", "n", "/", "a", ".", "j", "p", "g">>, <<"i", "n", "/", "{", "d", "e", "s", "t", "i", "n", "a", "t", "i", "o", "n", "}", ".", "j", "p", "g">>, <<"i", "n", "/", "g", "o", "n", "e", ".", "j", "p", "g">>}
ADestinations ==
    {<<"o", "u", "t", "/", "x", "/", "y", "/", "a", ".", "j", "p", "g">>, <<"a", ".", "j", "p", "g">>, <<"o", "u", "t", "/", "{", "s", "o", "u", "r", "c", "e", "}", ".", "j", "p", "g">>, <<"i", "n", "/", "a", ".", "j", "p", "g", "/", "b", ".", "j", "p", "g">>, <<"o", "u", "t", "/", "t", "a", "k", "e", "n", ".", "j", "p", "g">>}
AWorld ==
    [files |-> {<<"i", "n", "/", "a", ".", "j", "p", "g">>, <<"i", "n", "/", "{", "d", "e", "s", "t", "i", "n", "a", "t", "i", "o", "n", "}", ".", "j", "p", "g">>, <<"o", "u", "t", "/", "t", "a", "k", "e", "n", ".", "j", "p", "g">>},
     dirs |-> {<<"i", "n">>, <<"o", "u", "t">>}, links |-> {}, cmds |-> <<>>]

AInit ==
    /\ apc = "start"
    /\ \E a \in AActions, s \in ASources, d \in ADestinations, r \in Refusals :
           acall = [action |-> a, source |-> s, destination |-> d, world |-> AWorld,
                    refuses |-> r]
    /\ aout = [res |-> Err("not run"), world |-> EmptyWorld]
    /\ HIdle /\ EIdle /\ PIdle /\ TIdle /\ RIdle /\ DIdle /\ MIdle /\ CIdle

\* Action::execute(source, destination)
Execute ==
    /\ apc = "start"
    /\ aout' = ExecuteWith(acall.action, acall.source, acall.destination, acall.world,
                           acall.refuses)
    /\ apc' = "done"
    /\ UNCHANGED acall
    /\ UNCHANGED <<hvars, evars, pvars, tvars, rvars, dvars, mvars, cvars>>

ANext == Execute

SpecAction == AInit /\ [][ANext]_vars

(***************************************************************************)
(* The command-line entry point (main.rs): the path given, the files       *)
(* collected from it, the loop over them and the exit code.                *)
(***************************************************************************)
MaxEntries == 3

\* What the directory walk yields for an entry, and what process_file will
\* return for it:
\*   walk     "ok" | "err"      the entry could be read
\*   is_file  entry.file_type().is_file()
\*   utf8     the path is valid UTF-8
\*   media    the MIME type starts with image/ or video/
\*   outcome  "ok" | "extract" | "mkdir" | "copy"   where process_file fails
DirEntry(walk, is_file, utf8, media, outcome) ==
    [walk |-> walk, is_file |-> is_file, utf8 |-> utf8, media |-> media, outcome |-> outcome]

EntryKinds ==
    { DirEntry("ok", TRUE, TRUE, TRUE, "ok"),
      DirEntry("ok", TRUE, TRUE, TRUE, "extract"),
      DirEntry("ok", TRUE, TRUE, TRUE, "copy"),
      DirEntry("ok", TRUE, TRUE, FALSE, "ok"),
      DirEntry("ok", FALSE, TRUE, FALSE, "ok"),
      DirEntry("err", FALSE, TRUE, FALSE, "ok"),
      DirEntry("ok", TRUE, FALSE, TRUE, "ok") }

\* The entries of a walk, numbered in the order the walk yields them.
Numbered(es) == [k \in 1..Len(es) |-> [id |-> k, e |-> es[k]]]

\* is_media_file(path): it has no failing path.
is_media_file(entry) == Ok(entry.e.media)

\* The loop of collect_files over the walk: the first entry that cannot be
\* read, or whose path is not UTF-8, fails the whole collection.
RECURSIVE WalkFrom(_, _)
WalkFrom(entries, files) ==
    IF entries = <<>> THEN Ok(files)
    ELSE LET entry == Head(entries)
         IN  IF entry.e.walk = "err" THEN Err("Failed to read directory entry")
             ELSE IF ~entry.e.is_file THEN WalkFrom(Tail(entries), files)
             ELSE IF ~entry.e.utf8 THEN Err("Non-UTF8 path")
             ELSE IF is_media_file(entry).val THEN WalkFrom(Tail(entries), Append(files, entry))
             ELSE WalkFrom(Tail(entries), files)

\* collect_files(path, recursive)
collect_files(args) ==
    IF args.kind = "file"
    THEN (IF is_media_file(args.entries[1]).val THEN Ok(<<args.entries[1]>>) ELSE Ok(<<>>))
    ELSE IF args.kind = "dir" THEN WalkFrom(args.entries, <<>>)
    ELSE Ok(<<>>)

\* A mutant of process_file: a failing copy is not reported.
ProcessFileCopyUnchecked(entry) ==
    IF entry.e.outcome \in {"ok", "copy"} THEN Ok("done") ELSE Err(entry.e.outcome)

\* process_file(file_path, template): extraction, template, directory and
\* copy each return early with `?`.
process_file(entry) ==
    IF entry.e.outcome = "ok" THEN Ok("done") ELSE Err(entry.e.outcome)

MainArgs ==
    {[exists |-> FALSE, kind |-> "none", entries |-> <<>>],
     [exists |-> TRUE, kind |-> "other", entries |-> <<>>]}
    \cup {[exists |-> TRUE, kind |-> "file", entries |-> Numbered(<<e>>)] :
            e \in {k \in EntryKinds : k.walk = "ok" /\ k.is_file /\ k.utf8}}
    \cup {[exists |-> TRUE, kind |-> "dir", entries |-> Numbered(es)] :
            es \in SeqsUpTo(EntryKinds, MaxEntries)}

MInit ==
    /\ mpc = "start"
    /\ margs \in MainArgs
    /\ mfiles = <<>> /\ mlog = <<>>
    /\ mcount = [processed |-> 0, skipped |-> 0]
    /\ mexit = None
    /\ HIdle /\ EIdle /\ PIdle /\ TIdle /\ RIdle /\ DIdle /\ AIdle /\ CIdle

Exit(code) == mpc' = "exited" /\ mexit' = Some(code)

\* main: the path is validated and the files are collected.
MainCollect ==
    /\ mpc = "start"
    /\ IF ~margs.exists THEN Exit(1) /\ UNCHANGED mfiles
       ELSE IF ~collect_files(margs).ok THEN Exit(1) /\ UNCHANGED mfiles
       ELSE IF collect_files(margs).val = <<>> THEN Exit(0) /\ UNCHANGED mfiles
       ELSE mpc' = "loop" /\ mfiles' = collect_files(margs).val /\ UNCHANGED mexit
    /\ UNCHANGED <<margs, mlog, mcount>>
    /\ UNCHANGED <<hvars, evars, pvars, tvars, rvars, dvars, avars, cvars>>

\* main: one turn of the loop over the files.
MainProcessFile ==
    /\ mpc = "loop" /\ Len(mlog) < Len(mfiles)
    /\ LET file_path == mfiles[Len(mlog) + 1]
       IN  /\ mlog' = Append(mlog, file_path.id)
           /\ mcount' = IF process_file(file_path).ok
                        THEN [mcount EXCEPT !.processed = @ + 1]
                        ELSE [mcount EXCEPT !.skipped = @ + 1]
    /\ UNCHANGED <<mpc, margs, mfiles, mexit>>
    /\ UNCHANGED <<hvars, evars, pvars, tvars, rvars, dvars, avars, cvars>>

\* main: the summary is printed and Ok(()) returned.
MainSummary ==
    /\ mpc = "loop" /\ Len(mlog) = Len(mfiles)
    /\ Exit(0)
    /\ UNCHANGED <<margs, mfiles, mlog, mcount>>
    /\ UNCHANGED <<hvars, evars, pvars, tvars, rvars, dvars, avars, cvars>>

MNext == MainCollect \/ MainProcessFile \/ MainSummary

SpecMain == MInit /\ [][MNext]_vars

(***************************************************************************)
(* Deserialization of a pipeline (pipeline/mod.rs): the configuration      *)
(* document, reduced to the `input` of each ruleset, and the Pipeline it   *)
(* gives.                                                                  *)
(***************************************************************************)
MaxRulesets == 2

\* A YAML scalar given as `input`: a string, or a value that is no string.
YStr(s) == [k |-> "str", s |-> s]
YSeq == [k |-> "seq", s |-> EmptyStr]

InputLiterals ==
    { YStr(<<"c", "m", "d", "l", "i", "n", "e">>), YStr(<<"r", "u", "l", "e", "s", "e", "t", ":", "A">>), YStr(<<"r", "u", "l", "e", "s", "e", "t", ":">>), YStr(<<"o", "t", "h", "e", "r", ":", "A">>),
      YStr(<<"A">>), YStr(<<"C", "m", "d", "l", "i", "n", "e">>), YStr(<<"c", "m", "d", "l", "i", "n", "e", ":", "x">>), YStr(EmptyStr), YSeq }

\* deserialize_cmdline
deserialize_cmdline(y) ==
    IF y.k # "str" THEN Err("invalid type")
    ELSE IF y.s = <<"c", "m", "d", "l", "i", "n", "e">> THEN Ok(Cmdline)
    ELSE Err("expected 'cmdline'")

\* A mutant of DeserializeInputSpec: a string is taken as Prefixed only when
\* its text before the first ':' is ruleset.
DeserializeInputSpecStrict(y) ==
    IF deserialize_cmdline(y).ok THEN deserialize_cmdline(y)
    ELSE IF /\ y.k = "str" /\ SplitOnce(y.s, ":").some
            /\ SplitOnce(y.s, ":").val.prefix = <<"r", "u", "l", "e", "s", "e", "t">>
    THEN Ok(Prefixed(y.s))
    ELSE Err("data did not match any variant of untagged enum InputSpec")

\* #[serde(untagged)] enum InputSpec: the variants are tried in order, Cmdline
\* through deserialize_cmdline, then Prefixed(String), which takes any string.
DeserializeInputSpec(y) ==
    IF deserialize_cmdline(y).ok THEN deserialize_cmdline(y)
    ELSE IF y.k = "str" THEN Ok(Prefixed(y.s))
    ELSE Err("data did not match any variant of untagged enum InputSpec")

\* #[derive(Deserialize)] struct Pipeline: one failing ruleset fails the
\* document.
DeserializePipeline(doc) ==
    IF doc.kind # "yaml" THEN Err("malformed")
    ELSE IF \E i \in 1..Len(doc.inputs) : ~DeserializeInputSpec(doc.inputs[i]).ok
    THEN Err("data did not match any variant of untagged enum InputSpec")
    ELSE Ok([rulesets |-> [i \in 1..Len(doc.inputs) |->
                              [name |-> <<"R", Digit(i)>>,
                               input |-> DeserializeInputSpec(doc.inputs[i]).val,
                               rules |-> <<>>]]])

CInit ==
    /\ cpc = "start"
    /\ \/ cdoc = [kind |-> "malformed", inputs |-> <<>>]
       \/ \E ins \in SeqsUpTo(InputLiterals, MaxRulesets) : cdoc = [kind |-> "yaml", inputs |-> ins]
    /\ cout = Err("not run")
    /\ HIdle /\ EIdle /\ PIdle /\ TIdle /\ RIdle /\ DIdle /\ AIdle /\ MIdle

\* The configuration is deserialized.
LoadPipeline ==
    /\ cpc = "start"
    /\ cout' = DeserializePipeline(cdoc)
    /\ cpc' = "done"
    /\ UNCHANGED cdoc
    /\ UNCHANGED <<hvars, evars, pvars, tvars, rvars, dvars, avars, mvars>>

\* InputSpec::parse_type of every ruleset loaded.
ClassifyInputs ==
    /\ cpc = "done" /\ cout.ok
    /\ cout' = [cout EXCEPT !.val.rulesets =
                   [i \in 1..Len(@) |->
                       [name |-> @[i].name, input |-> @[i].input, rules |-> @[i].rules,
                        type |-> parse_type(@[i].input)]]]
    /\ cpc' = "classified"
    /\ UNCHANGED cdoc
    /\ UNCHANGED <<hvars, evars, pvars, tvars, rvars, dvars, avars, mvars>>

CNext == LoadPipeline \/ ClassifyInputs

SpecConfig == CInit /\ [][CNext]_vars

Init == HInit \/ EInit \/ PInit \/ TInit \/ RInit \/ DInit \/ AInit \/ MInit \/ CInit
Next == HNext \/ ENext \/ PNext \/ TNext \/ RNext \/ DNext \/ ANext \/ MNext \/ CNext
Spec == Init /\ [][Next]_vars

(***************************************************************************)
(* Claims                                                                  *)
(***************************************************************************)
IsSortedByTs(d) == \A i, j \in 1..Len(d) : i <= j => d[i].timestamp_ms <= d[j].timestamp_ms

\* C2: after from_json_file succeeds the stored points are sorted
\* non-decreasingly by timestamp_ms, whatever the order of the outer locations
\* and the timestamps of the nested activities.
C2_SortedAfterLoad == hpc = "loaded" => IsSortedByTs(data)

\* C2 witness: a loaded document whose points, in document order, are not
\* sorted because an activity is older than a point before it.
C2_Witness ==
    /\ hpc = "loaded"
    /\ Len(data) >= 3
    /\ ~IsSortedByTs(CollectPoints(takeout.locations))
    /\ \E i \in 1..Len(takeout.locations) :
           /\ takeout.locations[i].activity # <<>>
           /\ parse_str_to_u64(takeout.locations[i].activity[1]).val
                  < parse_str_to_u64(takeout.locations[i].timestamp_ms).val

\* C3: find_closest_points(t) brackets t.  Both returned: before.ts <= t <=
\* after.ts.  Only before: before.ts <= t and every point is <= t.  Only after:
\* t <= after.ts and every point is >= t.
C3_Brackets ==
    found.asked =>
        LET t == found.target
            b == found.before
            a == found.after
        IN  /\ (b.some /\ a.some) =>
                 b.val.timestamp_ms <= t /\ t <= a.val.timestamp_ms
            /\ (b.some /\ ~a.some) =>
                 /\ b.val.timestamp_ms <= t
                 /\ \A i \in 1..Len(data) : data[i].timestamp_ms <= t
            /\ (~b.some /\ a.some) =>
                 /\ t <= a.val.timestamp_ms
                 /\ \A i \in 1..Len(data) : data[i].timestamp_ms >= t

\* C3 witness: a query past the last of several points returned only before.
C3_Witness ==
    /\ found.asked /\ found.before.some /\ ~found.after.some
    /\ Len(data) >= 2
    /\ data[1].timestamp_ms < data[Len(data)].timestamp_ms

\* C4: find_closest_points(t) is the reference result.  Some point has ts = t:
\* before and after are one stored point with ts = t.  Otherwise before is a
\* stored point with the greatest ts < t (none if there is none), after one
\* with the smallest ts > t (none if there is none), and no stored point lies
\* strictly between them.  Empty history: (none, none).
C4_Reference ==
    found.asked =>
        LET t == found.target
            b == found.before
            a == found.after
            TsSet == {data[i].timestamp_ms : i \in 1..Len(data)}
            Below == {x \in TsSet : x < t}
            Above == {x \in TsSet : x > t}
        IN  /\ b.some => b.val \in Range(data)
            /\ a.some => a.val \in Range(data)
            /\ data = <<>> => ~b.some /\ ~a.some
            /\ t \in TsSet => b.some /\ a = b /\ b.val.timestamp_ms = t
            /\ t \notin TsSet =>
                 /\ b.some <=> Below # {}
                 /\ b.some => \A x \in Below : x <= b.val.timestamp_ms
                 /\ b.some => b.val.timestamp_ms \in Below
                 /\ a.some <=> Above # {}
                 /\ a.some => \A x \in Above : a.val.timestamp_ms <= x
                 /\ a.some => a.val.timestamp_ms \in Above
                 /\ (b.some /\ a.some) =>
                      ~\E x \in TsSet : b.val.timestamp_ms < x /\ x < a.val.timestamp_ms

\* C4 witness: a miss between two stored points, and a history that also
\* holds an exact duplicate timestamp.
C4_Witness ==
    /\ found.asked /\ found.before.some /\ found.after.some
    /\ found.before.val.timestamp_ms < found.target
    /\ found.target < found.after.val.timestamp_ms
    /\ Len(data) >= 3

(***************************************************************************)
(* Claims about extraction                                                 *)
(***************************************************************************)
Extracted == epc = "done"
Ctx == eout.res.val
Lookup == eout.lookup

\* The candidates of a lookup and their distance in time to the target.
Candidates == {c \in {Lookup.before, Lookup.after} : c.some}
Delta(c) == Abs(c.val.timestamp_ms - Lookup.target)
WindowMs == (IF emax.some THEN emax.val ELSE 48) * 3600000
Acceptable == {c \in Candidates : ~(Delta(c) > WindowMs)}

\* C5: in the location-history fallback a candidate is rejected iff its
\* distance in time to the target exceeds max_hours * 3,600,000 ms (48 hours
\* when unset); the acceptable candidate with the smaller distance is
\* selected, a tie selects before, none is selected if none is acceptable;
\* and the coordinates emitted are those of the selected point.
C5_Selection ==
    (Extracted /\ Lookup.consulted) =>
        /\ Lookup.selected.some <=> Acceptable # {}
        /\ Lookup.selected.some =>
              /\ Lookup.selected \in Acceptable
              /\ \A c \in Acceptable : Delta(Lookup.selected) <= Delta(c)
              /\ (Lookup.before \in Acceptable /\ Delta(Lookup.before) = Delta(Lookup.selected))
                    => Lookup.selected = Lookup.before
              /\ Ctx.space.lat = Lookup.selected.val.latitude_e7
              /\ Ctx.space.lon = Lookup.selected.val.longitude_e7
        /\ ~Lookup.selected.some => (Ctx.space.lat = 0 /\ Ctx.space.lon = 0)

\* C5 witness: with max_hours = 1, before lies exactly one hour before the
\* target and is selected; after lies one hour and one millisecond after it.
C5_Witness ==
    /\ Extracted /\ Lookup.consulted
    /\ emax = Some(1)
    /\ Lookup.before.some /\ Lookup.after.some
    /\ Lookup.target - Lookup.before.val.timestamp_ms = 3600000
    /\ Lookup.after.val.timestamp_ms - Lookup.target = 3600001
    /\ Lookup.selected = Lookup.before

\* The instant the decomposed strings of a time block spell, in seconds.
SpelledSeconds(t) ==
    days_from_civil(NumOf(t.yyyy, 0), NumOf(t.mm, 0), NumOf(t.dd, 0)) * 86400
        + NumOf(t.hh, 0) * 3600 + NumOf(t.min, 0) * 60 + NumOf(t.ss, 0)

StringsAgree(t) ==
    /\ Len(t.yyyy) = 4 /\ Len(t.mm) = 2 /\ Len(t.dd) = 2
    /\ Len(t.hh) = 2 /\ Len(t.min) = 2 /\ Len(t.ss) = 2
    /\ \A s \in {t.yyyy, t.mm, t.dd, t.hh, t.min, t.ss} : AllDigits(s)
    /\ SpelledSeconds(t) = t.timestamp.val \div 1000
    /\ NumOf(t.mm, 0) \in 1..12 /\ t.month_name = MonthNames[NumOf(t.mm, 0)]
    /\ t.weekday = WeekdayNames[((t.timestamp.val \div 86400000) % 7) + 1]

AllTimeDefaults(t) ==
    /\ t.yyyy = S_unknown /\ t.mm = S_00 /\ t.dd = S_00
    /\ t.hh = S_00 /\ t.min = S_00 /\ t.ss = S_00
    /\ t.month_name = S_Unknown /\ t.weekday = S_Unknown

\* C6: after extraction either time.timestamp is present and yyyy, mm, dd, hh,
\* min, ss, month_name and weekday agree with that instant in UTC, or it is
\* absent and every time string, hh, min and ss included, has its default.
C6_TimeInvariant ==
    Extracted => IF Ctx.time.timestamp.some THEN StringsAgree(Ctx.time)
                 ELSE AllTimeDefaults(Ctx.time)

\* C7: in every emitted context lat = 0 and lon = 0 iff city = "unknown" and
\* country = "unknown".
C7_OriginIffUnknown ==
    Extracted => ((Ctx.space.lat = 0 /\ Ctx.space.lon = 0)
                    <=> (Ctx.space.city = S_unknown /\ Ctx.space.country = S_unknown))

PCtx == pout.val
ProtoGpsTagOnly ==
    /\ efile.exif \in {"ok", "reparse_err"}
    /\ ~efile.gps.some
    /\ \E i \in 1..Len(efile.tags) :
           efile.tags[i].ok /\ efile.tags[i].known /\ efile.tags[i].tag = T_GPSInfo

LogIdx == 1..Len(olog)
Scans == {i \in LogIdx : olog[i].ev = "scan"}
OfScan(i, evs) == {j \in LogIdx : olog[j].scan = i /\ olog[j].ev \in evs}

\* The rules of the scan logged at i whose condition evaluates true.
TrueRules(i) ==
    {k \in 1..Len(ppl.rulesets[olog[i].rs].rules) :
        evaluate_condition(ppl.rulesets[olog[i].rs].rules[k].condition, olog[i].ctx) = Ok(TRUE)}

\* No two rulesets of the pipeline have the same name.
UniqueNames ==
    \A a, b \in 1..Len(ppl.rulesets) :
        ppl.rulesets[a].name = ppl.rulesets[b].name => a = b

NamedDependents(name) ==
    SelectSeq([i \in 1..Len(ppl.rulesets) |-> i],
              LAMBDA i : ppl.rulesets[i].input = Prefixed(<<"r", "u", "l", "e", "s", "e", "t", ":">> \o name))

RECURSIVE SeqOfSet(_)
SeqOfSet(S) ==
    IF S = {} THEN <<>>
    ELSE LET m == CHOOSE x \in S : \A y \in S : x <= y IN <<m>> \o SeqOfSet(S \ {m})

\* The rulesets entered because of the match logged at j, in the order they
\* were entered, followed by those still pending for it.
EnteredFor(j) ==
    [k \in 1..Cardinality({i \in Scans : olog[i].by = j}) |->
        olog[SeqOfSet({i \in Scans : olog[i].by = j})[k]].rs]
PendingFor(j) ==
    [k \in 1..Len(SelectSeq(stack, LAMBDA f : f.by = j /\ f.scan = 0)) |->
        SelectSeq(stack, LAMBDA f : f.by = j /\ f.scan = 0)[k].rs]

\* An action failed for input file n: the file is errored and what was
\* pending for it is abandoned.
Errored(n) == \E e \in LogIdx : olog[e].ev = "action_error" /\ olog[e].n = n

IsPrefix(s, t) == Len(s) <= Len(t) /\ SubSeq(t, 1, Len(s)) = s

Step(ev, rs, rule, file, destination, depth) ==
    [ev |-> ev, rs |-> rs, rule |-> rule, file |-> file, dst |-> destination, depth |-> depth]
Traversal(log) ==
    [i \in 1..Len(log) |->
        Step(log[i].ev, log[i].rs, log[i].rule, log[i].file, log[i].dst, log[i].depth)]

\* The traversal a run makes when every action succeeds: for a file, each
\* entry ruleset in declared order; in a ruleset, the rules in order up to
\* the first whose condition is true; on a match, the destination expanded
\* from the template and then each dependent ruleset with the destination.
RECURSIVE ScanOf(_, _, _, _), RulesFrom(_, _, _, _, _), ScansOf(_, _, _, _)
ScanOf(rs, file, context, depth) ==
    <<Step("scan", rs, 0, file, EmptyStr, depth)>> \o RulesFrom(rs, 1, file, context, depth)
RulesFrom(rs, k, file, context, depth) ==
    IF k > Len(ppl.rulesets[rs].rules)
    THEN <<Step("no_match", rs, 0, file, EmptyStr, depth)>>
    ELSE LET rule == ppl.rulesets[rs].rules[k]
             c == evaluate_condition(rule.condition, context)
             dst == apply_template(rule.template, context).val
         IN  IF ~c.ok
             THEN <<Step("rule_error", rs, k, file, EmptyStr, depth)>>
                      \o RulesFrom(rs, k + 1, file, context, depth)
             ELSE IF ~c.val THEN RulesFrom(rs, k + 1, file, context, depth)
             ELSE <<Step("match", rs, k, file, dst, depth)>>
                      \o (IF depth >= MaxDepth THEN <<>>
                          ELSE ScansOf(NamedDependents(ppl.rulesets[rs].name), dst,
                                       RefreshSource(context, dst), depth + 1))
ScansOf(indices, file, context, depth) ==
    IF indices = <<>> THEN <<>>
    ELSE ScanOf(Head(indices), file, context, depth)
             \o ScansOf(Tail(indices), file, context, depth)

RECURSIVE RunOver(_)
RunOver(files) ==
    IF files = <<>> THEN <<>>
    ELSE (IF ExtractFor(Head(files)).ok
          THEN ScansOf(SelectSeq([i \in 1..Len(ppl.rulesets) |-> i],
                                 LAMBDA i : ppl.rulesets[i].input = Cmdline),
                       Head(files).path, ExtractFor(Head(files)).val, 0)
          ELSE <<Step("file_error", 0, 0, Head(files).path, EmptyStr, 0)>>)
         \o RunOver(Tail(files))

NoActionError == \A e \in LogIdx : olog[e].ev # "action_error"

\* C10: in a dry run the filesystem stays as it was found (no directory is
\* created, no file is moved, copied or linked) and no command is executed,
\* while the matching, the destinations and the traversal into dependent
\* rulesets are those of a run whose actions all succeed: the log of a dry run
\* follows that traversal step by step and completes it, as does the log of a
\* normal run in which no action fails.
C10_DryRun ==
    /\ dry_run => world = WorldOf(inputs) /\ NoActionError
    /\ (dry_run \/ NoActionError) => IsPrefix(Traversal(olog), RunOver(inputs))
    /\ (opc = "done" /\ (dry_run \/ NoActionError)) => Traversal(olog) = RunOver(inputs)

\* C10 witness: a finished dry run that matched a rule with a cmd: action and
\* a rule with a move action, entered a dependent ruleset with the intended
\* destination, and left the filesystem untouched.
C10_Witness ==
    /\ opc = "done" /\ dry_run
    /\ \E j \in LogIdx :
          /\ olog[j].ev = "match"
          /\ ppl.rulesets[olog[j].rs].rules[olog[j].rule].action.variant = "Command"
    /\ \E j \in LogIdx :
          /\ olog[j].ev = "match"
          /\ ppl.rulesets[olog[j].rs].rules[olog[j].rule].action = ActMove
          /\ \E i \in Scans : olog[i].by = j /\ olog[i].file = olog[j].dst
    /\ world.dirs = {<<"i", "n">>} /\ world.cmds = <<>>
    /\ world.files = {inputs[k].path : k \in {m \in 1..Len(inputs) : inputs[m].stat}}

\* The scans in progress above the scan logged at i: the scan whose match led
\* to it, and so on up to the entry ruleset.
RECURSIVE CallersOf(_)
CallersOf(i) ==
    IF olog[i].by = 0 THEN {}
    ELSE {olog[olog[i].by].scan} \cup CallersOf(olog[olog[i].by].scan)

\* C11: per-file processing terminates whatever the dependency graph of the
\* rulesets, cycles being detected and broken: process_recursive is never
\* entered for a ruleset with the file and the context of a call of the same
\* ruleset that is still in progress above it (a call that recurs with its
\* own arguments recurs for ever, so the file never reaches a terminal state).
C11_CyclesBroken ==
    \A i \in Scans : \A a \in CallersOf(i) :
        ~(/\ olog[a].rs = olog[i].rs
          /\ olog[a].file = olog[i].file
          /\ olog[a].ctx = olog[i].ctx)

(***************************************************************************)
(* Claims about the template expander                                      *)
(***************************************************************************)
\* The references a context resolves: type, the fields of time, space,
\* source and special, and the meta tags the context holds.
ResolvableNames(context) ==
    { <<"t", "y", "p", "e">> }
    \cup { <<"t", "i", "m", "e", ".">> \o f : f \in { <<"y", "y", "y", "y">>, <<"m", "m">>, <<"d", "d">>, <<"h", "h">>, <<"m", "i", "n">>, <<"s", "s">>,
                                  <<"m", "o", "n", "t", "h", "_", "n", "a", "m", "e">>, <<"w", "e", "e", "k", "d", "a", "y">> } }
    \cup { <<"s", "p", "a", "c", "e", ".">> \o f : f \in { <<"c", "o", "u", "n", "t", "r", "y">>, <<"c", "o", "u", "n", "t", "r", "y", "_", "c", "o", "d", "e">>, <<"s", "t", "a", "t", "e">>, <<"c", "i", "t", "y">>,
                                   <<"d", "i", "s", "t", "r", "i", "c", "t">>, <<"r", "o", "a", "d">>, <<"l", "a", "t">>, <<"l", "o", "n">> } }
    \cup { <<"s", "o", "u", "r", "c", "e", ".">> \o f : f \in { <<"p", "a", "t", "h">>, <<"n", "a", "m", "e">>, <<"e", "x", "t", "e", "n", "s", "i", "o", "n">>, <<"o", "r", "i", "g", "i", "n", "a", "l">>, <<"s", "i", "z", "e">> } }
    \cup { <<"s", "p", "e", "c", "i", "a", "l", ".">> \o f : f \in { <<"m", "d", "5">>, <<"m", "d", "5", "_", "s", "h", "o", "r", "t">>, <<"c", "o", "u", "n", "t">> } }
    \cup { <<"m", "e", "t", "a", ".">> \o e.k : e \in context.meta }

UnknownLiteral(name) == <<"{", "u", "n", "k", "n", "o", "w", "n", ":">> \o name \o <<"}">>

\* The number of places of s at which pat occurs.
CountOcc(pat, s) ==
    Cardinality({i \in 1..Len(s) : i + Len(pat) - 1 <= Len(s)
                                   /\ SubSeq(s, i, i + Len(pat) - 1) = pat})

Expanded == tpc \in {"expanded", "again"}
VarParts == {k \in 1..Len(tparts) : tparts[k].kind = "var"}
Unresolved == {k \in VarParts : tparts[k].text \notin ResolvableNames(tctx)}

\* C12: template expansion is total: apply_template returns a path for every
\* template and context, and every placeholder whose reference does not
\* resolve (unknown block, unknown field, absent meta tag, wrong number of
\* segments) is in the output as the literal {unknown:<name>}, once for each
\* time it is written, never as the empty string.
C12_Total ==
    /\ Expanded => tout.ok
    /\ tpc = "again" => tagain.ok
    /\ Expanded =>
          \A k \in Unresolved :
              CountOcc(UnknownLiteral(tparts[k].text), tout.val)
                  >= Cardinality({j \in Unresolved : tparts[j].text = tparts[k].text})

\* C12 witness: an expansion of a template that names an absent meta tag
\* twice and a block with the wrong number of segments.
C12_Witness ==
    /\ tpc = "expanded" /\ tout.ok
    /\ Cardinality({k \in Unresolved : tparts[k].text = <<"m", "e", "t", "a", ".", "N", "o", "p", "e">>}) = 2
    /\ \E k \in Unresolved : tparts[k].text = <<"t", "i", "m", "e">>
    /\ CountOcc(<<"{", "u", "n", "k", "n", "o", "w", "n", ":", "m", "e", "t", "a", ".", "N", "o", "p", "e", "}">>, tout.val) = 2

HasBrace(s) == \E i \in 1..Len(s) : s[i] \in {"{", "}"}
AllResolve == VarParts # {} /\ Unresolved = {}

\* C13 as claimed: expanding a template whose every variable resolves is
\* idempotent under re-expansion, whatever text the values hold.
C13_Idempotent ==
    (tpc = "again" /\ AllResolve) => tagain = tout

\* C13 as amended: it is idempotent when neither the text around the
\* placeholders nor a substituted value holds a brace.
C13_IdempotentNoBrace ==
    (/\ tpc = "again" /\ AllResolve
     /\ \A k \in 1..Len(tparts) :
           IF tparts[k].kind = "lit" THEN ~HasBrace(tparts[k].text)
           ELSE ~HasBrace(Replacement(tparts[k].text, tctx)))
    => tagain = tout

\* C13 witness: a template of text and two resolving placeholders, without
\* braces in text and values, expanded twice.
C13_Witness ==
    /\ tpc = "again" /\ AllResolve
    /\ Len(tparts) = 3 /\ tparts[2].kind = "lit" /\ ~HasBrace(tparts[2].text)
    /\ tparts[1].kind = "var" /\ tparts[3].kind = "var"
    /\ ~HasBrace(tout.val) /\ Len(tout.val) > 2
    /\ tagain = tout

RECURSIVE PiecewiseOut(_, _)
PiecewiseOut(t, context) ==
    IF t = <<>> THEN <<>>
    ELSE (IF Head(t).kind = "lit" THEN Head(t).text
          ELSE IF resolve_variable(Head(t).text, context).some
          THEN resolve_variable(Head(t).text, context).val
          ELSE UnknownLiteral(Head(t).text))
            \o PiecewiseOut(Tail(t), context)

\* C14: one call of apply_template scans the template once, left to right:
\* the output is, part by part, the text outside placeholders unchanged and
\* for each placeholder its value or its {unknown:<name>} literal as inserted,
\* also when the inserted text is itself written like a placeholder.
C14_SingleScan ==
    Expanded => tout = Ok(PiecewiseOut(tparts, tctx))

\* C14 witness: the value of source.name is the text {type}; it is inserted
\* between text and is still {type} in the output.
C14_Witness ==
    /\ tpc = "expanded"
    /\ tctx.source.name = <<"{", "t", "y", "p", "e", "}">>
    /\ Len(tparts) = 3 /\ tparts[1] = Lit(<<"x", "/">>) /\ tparts[2] = Var(<<"s", "o", "u", "r", "c", "e", ".", "n", "a", "m", "e">>)
    /\ tparts[3] = Var(<<"n", "o", "s", "u", "c", "h", ".", "x">>)
    /\ tout.val = <<"x", "/", "{", "t", "y", "p", "e", "}", "{", "u", "n", "k", "n", "o", "w", "n", ":", "n", "o", "s", "u", "c", "h", ".", "x", "}">>

(***************************************************************************)
(* Claims about the rule engine                                            *)
(***************************************************************************)
RuleOf(e) == ppl.rulesets[olog[e].rs].rules[olog[e].rule]
RuleErrors == {e \in LogIdx : olog[e].ev = "rule_error"}

\* The rules a scan has gone through once the event logged at j is written.
ScannedBy(j) ==
    IF olog[j].ev = "no_match" THEN 1..Len(ppl.rulesets[olog[j].rs].rules)
    ELSE 1..(olog[j].rule - 1)

\* C15: a failure of the evaluator on a rule's condition (syntax error,
\* unresolved identifier) is surfaced as a rule error and the rule counts as
\* not matching: every rule whose condition fails to evaluate is logged as a
\* rule error, no action is executed for it, the scan goes on with the next
\* rule of the ruleset, and the file is not counted as errored.
C15_RuleErrorContinues ==
    /\ \A e \in RuleErrors :
          /\ ~Eval(RuleOf(e).condition, olog[e].ctx).ok
          /\ \A j \in OfScan(olog[e].scan, {"match", "action_error"}) :
                olog[j].rule > olog[e].rule
          /\ \/ \E j \in OfScan(olog[e].scan, {"rule_error", "match", "action_error", "no_match"}) :
                    j > e /\ (olog[j].ev = "no_match" \/ olog[j].rule > olog[e].rule)
             \/ /\ stack # <<>> /\ Top.scan = olog[e].scan /\ Top.rule > olog[e].rule
                /\ cur # NoFile
    /\ \A j \in LogIdx : olog[j].ev \in {"match", "action_error", "no_match"} =>
          \A k \in ScannedBy(j) :
              ~Eval(ppl.rulesets[olog[j].rs].rules[k].condition, olog[j].ctx).ok
                  => \E e \in RuleErrors : olog[e].scan = olog[j].scan /\ olog[e].rule = k
    /\ summary.errors = Cardinality({e \in LogIdx : olog[e].ev \in {"file_error", "action_error"}})

\* C15 witness: a finished run without errored files in which the first rule
\* of a ruleset named an unresolved identifier, was logged as a rule error,
\* and the second rule of the same scan matched and was executed.
C15_Witness ==
    /\ opc = "done" /\ ~dry_run /\ summary.errors = 0 /\ summary.processed > 0
    /\ \E e \in RuleErrors :
          /\ RuleOf(e).condition.k = "var" /\ olog[e].rule = 1
          /\ \E j \in OfScan(olog[e].scan, {"match"}) : olog[j].rule = 2

\* C16: a condition that evaluates successfully to a value that is no boolean
\* (number, string, map, unit) makes evaluate_condition return false: not an
\* error and not true.
C16_NonBooleanIsFalse ==
    (/\ rpc \in {"evaluated", "done"}
     /\ Eval(rrule.condition, rctx).ok
     /\ Eval(rrule.condition, rctx).val.t # "bool")
    => rcond = Ok(FALSE)

\* C16 witness: the condition evaluated to the map time and evaluate_condition
\* returned false.
C16_Witness ==
    /\ rpc = "evaluated"
    /\ Eval(rrule.condition, rctx) = Ok(DynMap)
    /\ rcond = Ok(FALSE)

\* C17: process_rule returns a (destination, action) pair exactly when the
\* rule's condition evaluates true; the destination is the rule's template
\* expanded against the same context and the action is the rule's own; when
\* the condition evaluates false it returns none.
C17_ProcessRule ==
    rpc = "done" =>
        /\ (rcond = Ok(TRUE)) <=> (rout.ok /\ rout.val.some)
        /\ (rcond = Ok(TRUE)) =>
              /\ rout.val.val.destination = ReplaceAllFrom(rrule.template, 1, rctx)
              /\ rout.val.val.action = rrule.action
        /\ (rcond = Ok(FALSE)) => rout = Ok(None)

\* C17 witness: a rule whose condition is true, processed into a destination
\* that differs from its template and its cmd: action.
C17_Witness ==
    /\ rpc = "done" /\ rcond = Ok(TRUE)
    /\ rout.ok /\ rout.val.some
    /\ rout.val.val.destination # rrule.template
    /\ rout.val.val.action.variant = "Command"

(***************************************************************************)
(* Claims about the phases of extraction                                   *)
(***************************************************************************)
Returned == epc \in {"done", "failed"}

\* C18: EXIF failures never abort extraction: a context is returned whenever
\* the file can be stat'ed, whatever the EXIF parser does (the file cannot be
\* read as a media source, no EXIF, a parse error in the GPS pass or in the
\* tag pass, an entry in error, a date that does not parse), and extraction
\* fails only when the file cannot be stat'ed.
C18_ExifNeverAborts ==
    Returned => (eout.res.ok <=> efile.stat)

\* C18 witness: the tag pass failed to parse a file that carries GPS data,
\* and a context was returned.
C18_Witness ==
    /\ epc = "done" /\ eout.res.ok
    /\ efile.exif = "reparse_err" /\ efile.gps.some

\* The timestamp the EXIF passes give, if they complete and a date parses.
ExifTimestamp ==
    IF extract_exif_metadata(efile).ok THEN extract_exif_metadata(efile).val.time.timestamp
    ELSE None

\* C19: the timestamp fallbacks are applied in order, each only if no
\* timestamp has been set: an EXIF date that parsed is the timestamp; else,
\* for a video only, the date of the file name; else the filesystem creation
\* time; else the timestamp stays unset.
C19_TimestampOrder ==
    Extracted =>
        Ctx.time.timestamp =
            IF ExifTimestamp.some THEN ExifTimestamp
            ELSE IF efile.mime = "video" /\ extract_date_from_filename(efile.path).some
            THEN extract_date_from_filename(efile.path)
            ELSE efile.created

\* C19 witness: a video with an EXIF date, a different date in its name and
\* a creation time different from both; the EXIF date is the timestamp.
C19_Witness ==
    /\ Extracted /\ efile.mime = "video"
    /\ ExifTimestamp.some
    /\ extract_date_from_filename(efile.path).some
    /\ extract_date_from_filename(efile.path) # ExifTimestamp
    /\ efile.created.some /\ efile.created # ExifTimestamp
    /\ Ctx.time.timestamp = ExifTimestamp

(***************************************************************************)
(* Claims about the date of a file name                                    *)
(***************************************************************************)
MonthLengths == <<31, 28, 31, 30, 31, 30, 31, 31, 30, 31, 30, 31>>
LeapYear(y) == IF y % 100 = 0 THEN y % 400 = 0 ELSE y % 4 = 0
DayExists(y, m, d) ==
    /\ m \in 1..12 /\ d >= 1
    /\ d <= (IF m = 2 /\ LeapYear(y) THEN 29 ELSE MonthLengths[m])

Dated == dpc \in {"dated", "done"}

\* C20: a date taken from a file name is accepted only when its year is in
\* 1900..2100, its month in 1..12, its day in 1..31 and the day exists in
\* that month; a name whose date has the year 1899 or 2101 gives no date; an
\* accepted date gives the instant 00:00:00 UTC of that day.
C20_FilenameDate ==
    /\ Dated /\ ddate.some =>
           /\ ddate.val.year \in 1900..2100
           /\ ddate.val.month \in 1..12
           /\ ddate.val.day \in 1..31
           /\ DayExists(ddate.val.year, ddate.val.month, ddate.val.day)
           /\ dinput.written.some => ddate.val = dinput.written.val
    /\ Dated /\ dinput.written.some /\ dinput.written.val.year \in {1899, 2101} =>
           ~ddate.some
    /\ dpc = "done" =>
           /\ dinstant.some <=> ddate.some
           /\ dinstant.some =>
                  /\ dinstant.val % MsPerDay = 0
                  /\ civil_from_days(dinstant.val \div MsPerDay) = ddate.val

\* C20 witness: the name 1970-01-24 x.mp4 gave the date it holds and the
\* instant 23 days after the epoch.
C20_Witness ==
    /\ dpc = "done"
    /\ dinput.written = Some(Date(1970, 1, 24))
    /\ dinput.path = DashedName(Date(1970, 1, 24))
    /\ ddate = dinput.written
    /\ dinstant = Some(23 * MsPerDay)

\* C21: besides eight consecutive digits read as YYYYMMDD, a name whose
\* prefix is a date written YYYY-MM-DD, YYYY.MM.DD or YYYY MM DD is
\* recognized: each form, with a valid date, yields that date.
C21_SeparatorForms ==
    Dated /\ dinput.written.some
          /\ dinput.written.val.year \in 1900..2100
          /\ DayExists(dinput.written.val.year, dinput.written.val.month,
                       dinput.written.val.day)
        => ddate = dinput.written

(***************************************************************************)
(* Claims about loading a location history                                 *)
(***************************************************************************)
\* The number of stored points equal to p.
Stored(p) == Cardinality({i \in 1..Len(data) : data[i] = p})

\* The number of entries of the document that ask for the point p: outer
\* locations with p's timestamp and coordinates, and activities with p's
\* timestamp inside a location with p's coordinates.
Asked(p) ==
    LET locs == takeout.locations
        Outer == {i \in 1..Len(locs) :
                    /\ locs[i].latitude_e7 = p.latitude_e7
                    /\ locs[i].longitude_e7 = p.longitude_e7
                    /\ NumOf(locs[i].timestamp_ms, 0) = p.timestamp_ms}
        Inner == {ij \in (1..Len(locs)) \X (1..MaxActs + 1) :
                    /\ ij[2] <= Len(locs[ij[1]].activity)
                    /\ locs[ij[1]].latitude_e7 = p.latitude_e7
                    /\ locs[ij[1]].longitude_e7 = p.longitude_e7
                    /\ NumOf(locs[ij[1]].activity[ij[2]], 0) = p.timestamp_ms}
    IN  Cardinality(Outer) + Cardinality(Inner)

RECURSIVE ActivityCount(_)
ActivityCount(locs) ==
    IF locs = <<>> THEN 0 ELSE Len(Head(locs).activity) + ActivityCount(Tail(locs))

PointsOfDocument ==
    {LocationPoint(ts, takeout.locations[i].latitude_e7, takeout.locations[i].longitude_e7) :
        ts \in {10, 20, 30}, i \in 1..Len(takeout.locations)}

\* C22: loading emits exactly one point per outer location at its own
\* timestamp and one point per activity entry at the activity's timestamp
\* with the enclosing location's latitude and longitude: the number of
\* stored points is the number of locations plus the number of activities.
\* Stated of the state the load leaves; a query changes neither the document
\* nor the points.
C22_PointsEmitted ==
    hpc = "loaded" /\ ~found.asked =>
        /\ Len(data) = Len(takeout.locations) + ActivityCount(takeout.locations)
        /\ \A i \in 1..Len(data) : data[i] \in PointsOfDocument
        /\ \A p \in PointsOfDocument : Stored(p) = Asked(p)

\* C22 witness: two locations, the second with an activity older than both;
\* three points are stored and the activity's has the second location's
\* coordinates.
C22_Witness ==
    /\ hpc = "loaded" /\ ~found.asked
    /\ Len(takeout.locations) = 2 /\ Len(data) = 3
    /\ takeout.locations[1].activity = <<>>
    /\ takeout.locations[1].timestamp_ms = <<"2", "0">>
    /\ takeout.locations[2].timestamp_ms = <<"3", "0">>
    /\ takeout.locations[2].activity = << <<"1", "0">> >>
    /\ data[1] = LocationPoint(10, 2, -2)

\* A timestampMs that is no number: empty, or with a character that is no
\* digit.
NonNumeric(ts) == ts = <<>> \/ \E i \in 1..Len(ts) : ts[i] \notin {"0", "1", "2", "3", "4", "5", "6", "7", "8", "9"}

HasNonNumeric(locs) ==
    \E i \in 1..Len(locs) :
        \/ NonNumeric(locs[i].timestamp_ms)
        \/ \E j \in 1..Len(locs[i].activity) : NonNumeric(locs[i].activity[j])

\* C23: loading from a missing file, from malformed JSON or from a document
\* with a non-numeric timestampMs, in an outer location or in an activity,
\* returns an error and no history, never a partially loaded one; any other
\* document loads.
C23_LoadError ==
    hpc # "start" =>
        /\ hpc = "failed" <=>
               \/ takeout.kind \in {"missing", "malformed"}
               \/ HasNonNumeric(takeout.locations)
        /\ hpc = "failed" => data = <<>>

\* C23 witness: a document whose first location is well formed and whose
\* second location has an activity with a non-numeric timestampMs; the load
\* failed and nothing is stored.
C23_Witness ==
    /\ hpc = "failed" /\ takeout.kind = "json"
    /\ Len(takeout.locations) = 2
    /\ ~NonNumeric(takeout.locations[1].timestamp_ms)
    /\ ~NonNumeric(takeout.locations[2].timestamp_ms)
    /\ takeout.locations[2].activity = << <<"1", "x">> >>
    /\ data = <<>>

(***************************************************************************)
(* Claims about the action executor                                        *)
(***************************************************************************)
Executed == apc = "done"

\* The directories above a path: its prefixes that end before a '/'.
DirsAbove(path) ==
    {SubSeq(path, 1, k - 1) : k \in {j \in 2..Len(path) : path[j] = "/"}}

\* The parent directory cannot be made: the operating system refuses, or a
\* file stands where a directory is needed.
MkdirFails ==
    \/ acall.refuses = "mkdir" /\ DirsAbove(acall.destination) # {}
    \/ DirsAbove(acall.destination) \cap acall.world.files # {}

\* C24: for every action variant the destination's parent directory, with
\* all intermediate components, is created before the action itself runs; if
\* creating it fails the action is not run and an error is returned.
C24_ParentFirst ==
    Executed =>
        /\ MkdirFails => ~aout.res.ok /\ aout.world = acall.world
        /\ ~MkdirFails => DirsAbove(acall.destination) \subseteq aout.world.dirs

\* C24 witness: a command whose destination lies two directories below an
\* existing one; both were made and the command was run.
C24_Witness ==
    /\ Executed /\ acall.action.variant = "Custom"
    /\ acall.destination = <<"o", "u", "t", "/", "x", "/", "y", "/", "a", ".", "j", "p", "g">>
    /\ aout.res.ok /\ Len(aout.world.cmds) = 1
    /\ {<<"o", "u", "t", "/", "x">>, <<"o", "u", "t", "/", "x", "/", "y">>} \cap acall.world.dirs = {}
    /\ {<<"o", "u", "t", "/", "x">>, <<"o", "u", "t", "/", "x", "/", "y">>} \subseteq aout.world.dirs

\* One pass over the command template, left to right: {source} and
\* {destination} are replaced where they stand and the inserted text is not
\* read again.
RECURSIVE SubstituteOnce(_, _, _)
SubstituteOnce(command, source, destination) ==
    IF command = <<>> THEN <<>>
    ELSE IF StartsWith(command, <<"{", "s", "o", "u", "r", "c", "e", "}">>)
    THEN source \o SubstituteOnce(SubSeq(command, Len(<<"{", "s", "o", "u", "r", "c", "e", "}">>) + 1, Len(command)),
                                  source, destination)
    ELSE IF StartsWith(command, <<"{", "d", "e", "s", "t", "i", "n", "a", "t", "i", "o", "n", "}">>)
    THEN destination \o SubstituteOnce(SubSeq(command, Len(<<"{", "d", "e", "s", "t", "i", "n", "a", "t", "i", "o", "n", "}">>) + 1,
                                              Len(command)), source, destination)
    ELSE <<Head(command)>> \o SubstituteOnce(Tail(command), source, destination)

CommandRun == Executed /\ acall.action.variant = "Custom" /\ Len(aout.world.cmds) = 1

\* C25: in a cmd: action {source} and {destination} are each replaced once
\* and the inserted text is not expanded again: a source path that holds the
\* text {destination}, or a destination that holds {source}, stands verbatim
\* in the command executed.
C25_ReplacedOnce ==
    CommandRun =>
        aout.world.cmds[1] = SubstituteOnce(acall.action.s, acall.source, acall.destination)

\* C26: a move succeeds across filesystems: when the rename fails because
\* source and destination are on different devices the file is copied and
\* the source deleted, so the destination exists and the source does not.
C26_MoveAcrossDevices ==
    Executed /\ acall.action.variant = "Move" /\ acall.refuses = "exdev"
             /\ acall.source \in acall.world.files /\ ~MkdirFails
        => /\ aout.res.ok
           /\ acall.destination \in aout.world.files
           /\ acall.source \notin aout.world.files

(***************************************************************************)
(* Claims about the run as a whole                                         *)
(***************************************************************************)
Exited == mpc = "exited"

\* The media files of the input set, in discovery order, and those of them
\* for which the processing fails.
InputSet ==
    SelectSeq(margs.entries, LAMBDA en : en.e.walk = "ok" /\ en.e.is_file /\ en.e.media)
FailingIn(files) == {k \in 1..Len(files) : files[k].e.outcome # "ok"}

\* C27: a failure on one file never stops the run: every file of the input
\* set is processed, in discovery order, each is counted exactly once in the
\* summary as processed or errored, and the exit code is 0; it is non-zero
\* only when the input path does not exist (main.rs loads no configuration).
C27_RunContinues ==
    Exited =>
        /\ mexit = Some(1) => ~margs.exists
        /\ margs.exists =>
               /\ mexit = Some(0)
               /\ mlog = [k \in 1..Len(InputSet) |-> InputSet[k].id]
               /\ mcount.skipped = Cardinality(FailingIn(InputSet))
               /\ mcount.processed + mcount.skipped = Len(InputSet)

\* The directory walk of collect_files met no entry it could not read and
\* no path that is not UTF-8.
WalkClean ==
    \A k \in 1..Len(margs.entries) :
        margs.entries[k].e.walk = "ok" /\ margs.entries[k].e.utf8

(***************************************************************************)
(* Claims about the configuration                                          *)
(***************************************************************************)
\* The literal cmdline, or a string of the form ruleset:<name>.
Recognized(y) ==
    /\ y.k = "str"
    /\ \/ y.s = <<"c", "m", "d", "l", "i", "n", "e">>
       \/ Len(y.s) >= Len(<<"r", "u", "l", "e", "s", "e", "t", ":">>) /\ SubSeq(y.s, 1, Len(<<"r", "u", "l", "e", "s", "e", "t", ":">>)) = <<"r", "u", "l", "e", "s", "e", "t", ":">>

\* C28: a ruleset input accepts only the literal cmdline or a string of the
\* form ruleset:<name>; any other input literal is a configuration error at
\* load, so no loaded pipeline holds a ruleset with an unrecognized input.
C28_InputRecognized ==
    /\ cpc # "start" =>
           (cout.ok <=> cdoc.kind = "yaml" /\ \A i \in 1..Len(cdoc.inputs) : Recognized(cdoc.inputs[i]))
    /\ cpc = "classified" =>
           \A i \in 1..Len(cout.val.rulesets) :
               \/ cout.val.rulesets[i].type.prefix = <<"c", "m", "d", "l", "i", "n", "e">>
               \/ /\ cout.val.rulesets[i].type.prefix = <<"r", "u", "l", "e", "s", "e", "t">>
                  /\ cout.val.rulesets[i].type.value.some

\* C29: the expander resolves space.<field> for any field of the space block
\* (country, country_code, state, city, district, road, lat, lon and
\* altitude), and likewise any field of the time and source blocks: a
\* placeholder naming a field of those blocks never expands to
\* {unknown:...}.
C29_BlockFieldsResolve ==
    Expanded =>
        \A k \in VarParts :
            tparts[k].text \in BlockFields
                => CountOcc(UnknownLiteral(tparts[k].text), tout.val) = 0

(***************************************************************************)
(* Claims about the location-history fallback                              *)
(***************************************************************************)
\* The GPS pass of the EXIF extraction obtained a position.
GpsObtained == efile.exif \in {"ok", "reparse_err"} /\ efile.gps.some

\* The space block the GPS pass derives from the EXIF position.
ExifSpace == apply_defaults(GpsPass(DefaultContext, efile.gps)).space

\* C30: coordinates obtained from EXIF GPS are never replaced by the
\* location-history fallback: the fallback runs only when no GPS was
\* obtained, so for every file whose EXIF GPS pass succeeded, a position of
\* exactly latitude 0, longitude 0 included, the emitted lat, lon, altitude
\* and administrative names are those derived from EXIF, whatever the
\* location history holds.
C30_ExifGpsKept ==
    Extracted /\ GpsObtained =>
        /\ ~Lookup.consulted
        /\ Ctx.space = ExifSpace

====
